---- MODULE Spec2Model ----
(***************************************************************************)
(* Model of monorepo-changelog-cli: the dependency-aware version           *)
(* propagation, conflict checking and version application of               *)
(*   src/src/core/version.ts      (VersionManager)                         *)
(*   src/src/core/workspace.ts    (WorkspaceManager)                       *)
(*   src/src/commands/update.ts   (UpdateCommand)                          *)
(*   src/dist/index.js            (the built VersionManager, the only      *)
(*                                 variant that has checkVersionConflicts) *)
(***************************************************************************)
EXTENDS Integers, Sequences, FiniteSets, TLC

VARIABLES
  pc,              \* position of the operation that is running
  manifest,        \* the package.json files on disk, by package name
  packages,        \* the caller's in-memory PackageInfo records, by name
  dependencyGraph, \* VersionManager.dependencyGraph: name -> dependency names
  targetPackages,  \* the direct targets (a list; names may repeat)
  newCommits,      \* commit messages per package (Map<string, CommitInfo[]>)
  bumpType,        \* options.type: "major", "minor", "patch" or "" (not given)
  dryRun,          \* options.dryRun
  toUpdate,        \* the list returned by getPackagesToUpdate
  strategies,      \* the plan: a list of VersionUpdateStrategy
  versionChanges,  \* Map<string, {old, new}> of batchUpdateVersions
  conflicts,       \* the list returned by checkVersionConflicts
  written,         \* the files written so far, in order (kind, package)
  before,          \* the manifests and records as they were when the call began
  call,            \* the arguments of a direct API call under check
  error,           \* "" or the error the operation threw
  result,          \* the value the direct API call under check returned
  cacheFile,       \* the cache file of CacheManager (.changelog/cache.json)
  now,             \* the clock read by new Date(), in milliseconds
  changelogs,      \* the metadata blocks of the CHANGELOG.md files, by path
  configFile       \* the configuration file (changelog.config.json)

vars == <<pc, manifest, packages, dependencyGraph, targetPackages, newCommits,
          bumpType, dryRun, toUpdate, strategies, versionChanges, conflicts,
          written, before, call, error, result, cacheFile, now, changelogs,
          configFile>>

\* the state of the cache and configuration managers and the returned value
cacheVars == <<result, cacheFile, now, changelogs, configFile>>

----------------------------------------------------------------------------
(* The parts of the state an operation does not use *)

\* no value returned yet
NoResult == [kind |-> "none"]

\* no such file on disk (the cache file, the configuration file, a
\* CHANGELOG.md)
NoFile == [kind |-> "missing"]

\* the cache and configuration managers are not used: no file, no
\* changelog, clock at zero
CacheUnused ==
  /\ result = NoResult
  /\ cacheFile = NoFile
  /\ now = 0
  /\ changelogs = <<>>
  /\ configFile = NoFile

----------------------------------------------------------------------------
(* Bounds *)

\* version components of the initial manifests range over 0..MaxVer
MaxVer == 1
\* longest commit message, in tokens, drawn for calculateVersionBump
MaxMsgLen == 3
\* longest list of package paths handed to rebuildCache
MaxPaths == 2
\* longest list of direct targets handed to getPackagesToUpdate
MaxTargets == 2
\* most writing operations of CacheManager called one after the other
MaxOps == 3
\* most commits in the history that the init command reads
MaxCommits == 2
\* longest list of changed files of a commit
MaxFiles == 2
\* most segments of a repository-relative file path
MaxDepth == 2

----------------------------------------------------------------------------
(* Names *)

\* the packages of the workspace, in discovery order (the order of the
\* packages array and of Object.entries(dependencyGraph))
PackageOrder == <<"a", "b", "c">>

Names == {PackageOrder[i] : i \in 1..Len(PackageOrder)}

\* a name that no package of the workspace carries
Unknown == "x"

DepNames == Names \cup {Unknown}

BumpTypes == {"major", "minor", "patch"}

\* the elements of a sequence
Range(s) == {s[i] : i \in 1..Len(s)}

\* all sequences over S of length at most n
SeqsUpTo(S, n) == UNION {[1..k -> S] : k \in 0..n}

----------------------------------------------------------------------------
(* Versions and the semver library calls the code makes *)

\* A version string in parsed form. pre is "" for a release and the
\* prerelease tag otherwise; InvalidVersion stands for every string that
\* semver cannot parse (such as "latest").
Version(x, y, z, p) == [major |-> x, minor |-> y, patch |-> z, pre |-> p]

InvalidVersion == Version(0, 0, 0, "invalid")

ReleaseVersions == {Version(x, y, z, "") : x, y, z \in 0..MaxVer}

PrereleaseVersions == {Version(x, y, z, "alpha") : x, y, z \in 0..MaxVer}

AllVersions == ReleaseVersions \cup PrereleaseVersions \cup {InvalidVersion}

\* semver.valid(version) !== null
validateVersion(version) == version.pre # "invalid"

\* semver.compare on two valid versions: -1, 0 or 1. A release is greater
\* than a prerelease of the same major.minor.patch.
compareVersions(v1, v2) ==
  CASE v1.major # v2.major -> IF v1.major < v2.major THEN -1 ELSE 1
    [] v1.minor # v2.minor -> IF v1.minor < v2.minor THEN -1 ELSE 1
    [] v1.patch # v2.patch -> IF v1.patch < v2.patch THEN -1 ELSE 1
    [] v1.pre = v2.pre -> 0
    [] v1.pre = "" -> 1
    [] v2.pre = "" -> -1
    [] OTHER -> IF v1.pre = "alpha" THEN -1 ELSE 1

\* a faulty variant of semverInc that, for a patch bump, only drops the prerelease
\* tag and never increments the patch number
semverIncNoPatch(version, type) ==
  CASE ~validateVersion(version) -> InvalidVersion
    [] type = "major" -> Version(version.major + 1, 0, 0, "")
    [] type = "minor" -> Version(version.major, version.minor + 1, 0, "")
    [] OTHER -> Version(version.major, version.minor, version.patch, "")

\* semver.inc(version, type): null (here InvalidVersion) for an invalid
\* version. A prerelease is first promoted to its release: 1.0.0-alpha
\* becomes 1.0.0 under every bump type, 1.1.0-alpha becomes 1.1.0 under
\* minor and patch, and 2.0.0 under major.
semverInc(version, type) ==
  CASE ~validateVersion(version) -> InvalidVersion
    [] type = "major" ->
         IF version.minor # 0 \/ version.patch # 0 \/ version.pre = ""
           THEN Version(version.major + 1, 0, 0, "")
           ELSE Version(version.major, 0, 0, "")
    [] type = "minor" ->
         IF version.patch # 0 \/ version.pre = ""
           THEN Version(version.major, version.minor + 1, 0, "")
           ELSE Version(version.major, version.minor, 0, "")
    [] OTHER ->
         IF version.pre = ""
           THEN Version(version.major, version.minor, version.patch + 1, "")
           ELSE Version(version.major, version.minor, version.patch, "")

\* calculateNewVersion: the new version, or a throw when semver.inc
\* returns null
calculateNewVersion(currentVersion, type) ==
  LET newVersion == semverInc(currentVersion, type)
  IN  IF ~validateVersion(newVersion)
        THEN [threw |-> TRUE, version |-> InvalidVersion]
        ELSE [threw |-> FALSE, version |-> newVersion]

----------------------------------------------------------------------------
(* Dependency specifiers *)

\* A specifier string in parsed form: ws says that it starts with
\* "workspace:", op is the range operator that follows ("" for none) and
\* ver the version after it (NoVer when the string ends at the operator).
NoVer == Version(0, 0, 0, "none")

Specifier(w, o, v) == [ws |-> w, op |-> o, ver |-> v]

\* the map has no entry for the name (or an empty string: both are falsy)
NoSpec == Specifier(FALSE, "absent", NoVer)

WorkspaceStar == Specifier(TRUE, "*", NoVer)
WorkspaceCaret == Specifier(TRUE, "^", NoVer)
WorkspaceTilde == Specifier(TRUE, "~", NoVer)

\* the bare string `${version}`
Bare(version) == Specifier(FALSE, "", version)

\* the string `workspace:${version}`
WorkspaceExact(version) == Specifier(TRUE, "", version)

\* a faulty variant of isSpecialWorkspaceVersion that forgets workspace:~
isSpecialWorkspaceVersionNoTilde(version) ==
  version \in {WorkspaceStar, WorkspaceCaret}

\* version === 'workspace:*' || version === 'workspace:^' ||
\* version === 'workspace:~'
isSpecialWorkspaceVersion(version) ==
  version \in {WorkspaceStar, WorkspaceCaret, WorkspaceTilde}

\* version.startsWith('workspace:')
isWorkspaceDependency(version) == version.ws

\* a JS truthiness test of a map entry
Truthy(spec) == spec # NoSpec

\* a || b || c on three map entries
FirstTruthy(a, b, c) == IF Truthy(a) THEN a ELSE IF Truthy(b) THEN b ELSE c

----------------------------------------------------------------------------
(* Packages *)

DepMaps == {"dependencies", "devDependencies", "peerDependencies"}

NoDeps == [d \in DepNames |-> NoSpec]

\* a PackageInfo / package.json: the version and the three dependency maps
Package(v, deps, dev, peer) ==
  [version |-> v, dependencies |-> deps, devDependencies |-> dev,
   peerDependencies |-> peer]

----------------------------------------------------------------------------
(* WorkspaceManager: the writes to package.json *)

\* a faulty variant of rewriteSpecifier that drops the workspace: prefix
rewriteSpecifierBare(currentVersion, newVersion) ==
  IF ~Truthy(currentVersion)
    THEN currentVersion
    ELSE IF isWorkspaceDependency(currentVersion)
              /\ isSpecialWorkspaceVersion(currentVersion)
      THEN currentVersion
      ELSE Bare(newVersion)

\* the if / else-if / else chain that updatePackageDependency runs on the
\* entry of each of the three maps
rewriteSpecifier(currentVersion, newVersion) ==
  IF ~Truthy(currentVersion)
    THEN currentVersion
    ELSE IF isWorkspaceDependency(currentVersion)
              /\ isSpecialWorkspaceVersion(currentVersion)
      THEN currentVersion
      ELSE IF isWorkspaceDependency(currentVersion)
        THEN WorkspaceExact(newVersion)
        ELSE Bare(newVersion)

\* WorkspaceManager.updatePackageDependency on the parsed package.json
updatePackageDependency(packageJson, dependencyName, newVersion) ==
  [packageJson EXCEPT
     !.dependencies[dependencyName] = rewriteSpecifier(@, newVersion),
     !.devDependencies[dependencyName] = rewriteSpecifier(@, newVersion),
     !.peerDependencies[dependencyName] = rewriteSpecifier(@, newVersion)]

\* WorkspaceManager.updatePackageVersion on the parsed package.json
updatePackageVersion(packageJson, newVersion) ==
  [packageJson EXCEPT !.version = newVersion]

----------------------------------------------------------------------------
(* Version Applier: VersionManager.batchUpdateVersions *)

\* The files and records an operation works on: the manifests on disk, the
\* caller's PackageInfo records and the log of file writes.
World(m, p, w) == [manifest |-> m, packages |-> p, written |-> w]

Write(kind, name) == [kind |-> kind, name |-> name]

\* VersionManager.executeVersionUpdate: a fresh WorkspaceManager reads the
\* manifest from disk and writes the version; then the caller's record is
\* assigned. The WorkspaceManager's own cache is dropped with it.
executeVersionUpdate(w, name, newVersion) ==
  World([w.manifest EXCEPT ![name] = updatePackageVersion(@, newVersion)],
        [w.packages EXCEPT ![name].version = newVersion],
        Append(w.written, Write("manifest", name)))

\* Map.set(package, {old, new}) on a Map kept as a list in insertion order
MapSet(map, change) ==
  IF \E i \in 1..Len(map) : map[i].package = change.package
    THEN [i \in 1..Len(map) |->
            IF map[i].package = change.package THEN change ELSE map[i]]
    ELSE Append(map, change)

RECURSIVE computeVersionChangesSkipInvalid(_, _, _)

\* a faulty variant of the first loop that passes over a package whose new
\* version cannot be computed instead of throwing
computeVersionChangesSkipInvalid(pkgs, strats, acc) ==
  IF strats = <<>>
    THEN [threw |-> FALSE, changes |-> acc]
    ELSE LET strategy == Head(strats)
         IN  IF strategy.package \notin Names
               THEN computeVersionChangesSkipInvalid(pkgs, Tail(strats), acc)
               ELSE LET new == calculateNewVersion(
                                 pkgs[strategy.package].version, strategy.type)
                    IN  IF new.threw
                          THEN computeVersionChangesSkipInvalid(
                                 pkgs, Tail(strats), acc)
                          ELSE computeVersionChangesSkipInvalid(
                                 pkgs, Tail(strats),
                                 MapSet(acc, [package |-> strategy.package,
                                              old |-> pkgs[strategy.package].version,
                                              new |-> new.version]))

RECURSIVE computeVersionChanges(_, _, _)

\* the first loop of batchUpdateVersions: the Map of version changes, or a
\* throw of calculateNewVersion
computeVersionChanges(pkgs, strats, acc) ==
  IF strats = <<>>
    THEN [threw |-> FALSE, changes |-> acc]
    ELSE LET strategy == Head(strats)
         IN  IF strategy.package \notin Names
               THEN computeVersionChanges(pkgs, Tail(strats), acc)
               ELSE LET new == calculateNewVersion(
                                 pkgs[strategy.package].version, strategy.type)
                    IN  IF new.threw
                          THEN [threw |-> TRUE, changes |-> acc]
                          ELSE computeVersionChanges(pkgs, Tail(strats),
                                 MapSet(acc, [package |-> strategy.package,
                                              old |-> pkgs[strategy.package].version,
                                              new |-> new.version]))

\* versionChanges.get(name), a one-element set, or {} for undefined
MapGet(map, name) == {map[i] : i \in {j \in 1..Len(map) : map[j].package = name}}

RECURSIVE updateVersions(_, _, _)

\* the second loop of batchUpdateVersions
updateVersions(w, strats, changes) ==
  IF strats = <<>>
    THEN w
    ELSE LET strategy == Head(strats)
             found == MapGet(changes, strategy.package)
         IN  IF strategy.package \notin Names \/ found = {}
               THEN updateVersions(w, Tail(strats), changes)
               ELSE updateVersions(
                      executeVersionUpdate(w, strategy.package,
                                           (CHOOSE c \in found : TRUE).new),
                      Tail(strats), changes)

\* the body of the inner loop of updateDependencyVersions for one package
\* and one changed package: the specifier is looked up in the caller's
\* record, the rewrite is done by a WorkspaceManager on the file
updateOneDependency(w, name, change) ==
  LET dependencyVersion ==
        FirstTruthy(w.packages[name].dependencies[change.package],
                    w.packages[name].devDependencies[change.package],
                    w.packages[name].peerDependencies[change.package])
  IN  IF Truthy(dependencyVersion)
           /\ ~isSpecialWorkspaceVersion(dependencyVersion)
        THEN World([w.manifest EXCEPT
                      ![name] = updatePackageDependency(@, change.package,
                                                        change.new)],
                   w.packages,
                   Append(w.written, Write("manifest", name)))
        ELSE w

RECURSIVE updateDependenciesOf(_, _, _)

\* for (const [changedPackage, versionChange] of versionChanges)
updateDependenciesOf(w, name, changes) ==
  IF changes = <<>>
    THEN w
    ELSE updateDependenciesOf(updateOneDependency(w, name, Head(changes)),
                              name, Tail(changes))

RECURSIVE updateDependencyVersions(_, _, _)

\* for (const pkg of packages)
updateDependencyVersions(w, names, changes) ==
  IF names = <<>>
    THEN w
    ELSE updateDependencyVersions(updateDependenciesOf(w, Head(names), changes),
                                  Tail(names), changes)

----------------------------------------------------------------------------
(* semver.satisfies and the dependency graph *)

\* v1 < v2 and v1 >= v2 under semver.compare
VersionLt(v1, v2) == compareVersions(v1, v2) = -1
VersionGte(v1, v2) == compareVersions(v1, v2) # -1

\* the exclusive upper end of ^version and of ~version
CaretUpper(version) ==
  CASE version.major > 0 -> Version(version.major + 1, 0, 0, "")
    [] version.minor > 0 -> Version(0, version.minor + 1, 0, "")
    [] OTHER -> Version(0, 0, version.patch + 1, "")

TildeUpper(version) == Version(version.major, version.minor + 1, 0, "")

\* x.y.z of version is below x.y.z of upper (the range ends at upper-0)
BelowUpper(version, upper) ==
  VersionLt(Version(version.major, version.minor, version.patch, ""), upper)

\* semver.satisfies(version, range): false for a range semver cannot parse,
\* which every string that starts with workspace: is. A prerelease version
\* satisfies only a range that names a prerelease of the same x.y.z.
semverSatisfies(version, range) ==
  IF range.ws \/ range.op = "absent" \/ ~validateVersion(version)
    THEN FALSE
    ELSE /\ version.pre # "" =>
              /\ range.op # "*"
              /\ range.ver.pre # ""
              /\ range.ver.major = version.major
              /\ range.ver.minor = version.minor
              /\ range.ver.patch = version.patch
         /\ CASE range.op = "*" -> TRUE
              [] range.op = "" -> compareVersions(version, range.ver) = 0
              [] range.op = "^" -> /\ VersionGte(version, range.ver)
                                   /\ BelowUpper(version, CaretUpper(range.ver))
              [] OTHER -> /\ VersionGte(version, range.ver)
                          /\ BelowUpper(version, TildeUpper(range.ver))

\* WorkspaceManager.buildDependencyGraph: the names a package declares in
\* any of its maps that are packages of the workspace or carry a
\* workspace: specifier (a list in the code, read only by includes())
buildDependencyGraph(pkgs) ==
  [n \in Names |->
     {d \in DepNames :
        \E m \in DepMaps :
          /\ Truthy(pkgs[n][m][d])
          /\ (d \in Names \/ isWorkspaceDependency(pkgs[n][m][d]))}]

----------------------------------------------------------------------------
(* Update Propagation Engine: VersionManager.getPackagesToUpdate *)

\* a faulty variant of getDependentPackages that follows the dependency edges
\* forward (the dependencies of the package instead of its dependents)
getDependentPackagesForward(graph, packageName) ==
  SelectSeq(PackageOrder,
            LAMBDA n : packageName \in Names /\ n \in graph[packageName])

\* for (const [name, deps] of Object.entries(graph))
\*   if (deps.includes(packageName)) dependents.push(name)
getDependentPackages(graph, packageName) ==
  SelectSeq(PackageOrder, LAMBDA n : packageName \in graph[n])

RECURSIVE addPackageAndDependents(_, _, _)
RECURSIVE addEach(_, _, _)

\* the closure addPackageAndDependents, with the Set packagesToUpdate it
\* mutates passed through as acc (a JS Set keeps insertion order)
addPackageAndDependents(graph, acc, packageName) ==
  IF packageName \in Range(acc)
    THEN acc
    ELSE addEach(graph, Append(acc, packageName),
                 getDependentPackages(graph, packageName))

\* for (const n of names) addPackageAndDependents(n)
addEach(graph, acc, names) ==
  IF names = <<>>
    THEN acc
    ELSE addEach(graph, addPackageAndDependents(graph, acc, Head(names)),
                 Tail(names))

\* a faulty variant of getPackagesToUpdate that collects the direct targets
\* in an array (repeats kept) and the dependents after them
getPackagesToUpdateArray(graph, packageNames) ==
  packageNames \o SelectSeq(addEach(graph, <<>>, packageNames),
                            LAMBDA n : n \notin Range(packageNames))

\* a faulty variant of getPackagesToUpdate that adds the dependents of the
\* direct targets only, without recursing into them
getPackagesToUpdateOneLevel(graph, packageNames) ==
  SelectSeq(PackageOrder \o <<Unknown>>,
            LAMBDA n : \/ n \in Range(packageNames)
                       \/ /\ n \in Names
                          /\ \E t \in Range(packageNames) : t \in graph[n])

\* VersionManager.getPackagesToUpdate: Array.from(packagesToUpdate)
getPackagesToUpdate(graph, packageNames) == addEach(graph, <<>>, packageNames)

----------------------------------------------------------------------------
(* Version Bump Calculator and the plan of the update command *)

\* Commit messages are lists of tokens; a word token holds no "!", ":" or
\* "(".
MsgFix == <<"fix", ":", " ", "patch bug">>
MsgFeat == <<"feat", ":", " ", "add x">>
MsgFeatBang == <<"feat", "!", ":", " ", "remove legacy api">>

\* a token matched by \w+
IsWord(token) == token \in {"feat", "fix", "core"}

\* msg.includes('BREAKING CHANGE')
IncludesBreaking(msg) == \E i \in 1..Len(msg) : msg[i] = "BREAKING CHANGE"

\* msg.includes('!:')
IncludesBangColon(msg) ==
  \E i \in 1..(Len(msg) - 1) : msg[i] = "!" /\ msg[i + 1] = ":"

\* msg.match(/^(\w+)(\(.+\))?!:/)
MatchesBangHeader(msg) ==
  /\ Len(msg) >= 3
  /\ IsWord(msg[1])
  /\ \/ msg[2] = "!" /\ msg[3] = ":"
     \/ /\ msg[2] = "("
        /\ \E j \in 4..(Len(msg) - 2) :
             msg[j] = ")" /\ msg[j + 1] = "!" /\ msg[j + 2] = ":"

\* msg.startsWith('feat:') || msg.startsWith('feat(')
StartsWithFeat(msg) ==
  Len(msg) >= 2 /\ msg[1] = "feat" /\ msg[2] \in {":", "("}

\* a faulty variant of calculateVersionBump that looks for features before
\* breaking changes
calculateVersionBumpFeatFirst(currentVersion, commitMessages, type) ==
  IF type # ""
    THEN type
    ELSE IF \E i \in 1..Len(commitMessages) : StartsWithFeat(commitMessages[i])
      THEN "minor"
      ELSE IF \E i \in 1..Len(commitMessages) :
                \/ IncludesBreaking(commitMessages[i])
                \/ IncludesBangColon(commitMessages[i])
                \/ MatchesBangHeader(commitMessages[i])
        THEN "major"
        ELSE "patch"

\* VersionManager.calculateVersionBump
calculateVersionBump(currentVersion, commitMessages, type) ==
  IF type # ""
    THEN type
    ELSE IF \E i \in 1..Len(commitMessages) :
              \/ IncludesBreaking(commitMessages[i])
              \/ IncludesBangColon(commitMessages[i])
              \/ MatchesBangHeader(commitMessages[i])
      THEN "major"
      ELSE IF \E i \in 1..Len(commitMessages) : StartsWithFeat(commitMessages[i])
        THEN "minor"
        ELSE "patch"

\* a strategy; reason is "direct" for the code's direct-update text and
\* "dependency" for its dependency-update text
Strategy(type, package, reason) ==
  [type |-> type, package |-> package, reason |-> reason]

\* UpdateCommand.determineTargetPackages for --all or --packages
determineTargetPackages(all, requested) ==
  IF all THEN PackageOrder ELSE SelectSeq(requested, LAMBDA n : n \in Names)

\* UpdateCommand.getNewCommits: the Map holds the commits of the targets
getNewCommits(targets, history) ==
  [n \in Names |-> IF n \in Range(targets) THEN history[n] ELSE <<>>]

RECURSIVE createUpdateStrategies(_, _, _, _, _)

\* UpdateCommand.createUpdateStrategies, over allPackagesToUpdate
createUpdateStrategies(pkgs, names, targets, commits, type) ==
  IF names = <<>>
    THEN <<>>
    ELSE LET packageName == Head(names)
             rest == createUpdateStrategies(pkgs, Tail(names), targets,
                                            commits, type)
             isDirectTarget == packageName \in Range(targets)
         IN  IF packageName \notin Names
               THEN rest
               ELSE IF isDirectTarget /\ commits[packageName] # <<>>
                 THEN <<Strategy(calculateVersionBump(pkgs[packageName].version,
                                                      commits[packageName], type),
                                 packageName, "direct")>> \o rest
                 ELSE IF ~isDirectTarget
                   THEN <<Strategy(IF type # "" THEN type ELSE "patch",
                                   packageName, "dependency")>> \o rest
                   ELSE rest

RECURSIVE planOf(_, _, _, _)

\* the loop of createUpdatePlan over allPackagesToUpdate; known holds the
\* names of the packages argument (packageMap)
planOf(known, names, targets, type) ==
  IF names = <<>>
    THEN <<>>
    ELSE LET packageName == Head(names)
             rest == planOf(known, Tail(names), targets, type)
         IN  IF packageName \notin known
               THEN rest
               ELSE <<Strategy(IF type # "" THEN type ELSE "patch",
                               packageName,
                               IF packageName \in Range(targets)
                                 THEN "direct" ELSE "dependency")>> \o rest

\* a faulty variant of createUpdatePlan that calls every strategy a direct one
createUpdatePlanAllDirect(known, graph, targets, type) ==
  LET plan == planOf(known, getPackagesToUpdate(graph, targets), targets, type)
  IN  [i \in 1..Len(plan) |-> Strategy(plan[i].type, plan[i].package, "direct")]

\* a faulty variant of createUpdatePlan without the test of packageMap
createUpdatePlanNoSkip(known, graph, targets, type) ==
  planOf(DepNames, getPackagesToUpdate(graph, targets), targets, type)

\* VersionManager.createUpdatePlan(packages, targetPackages, bumpType)
createUpdatePlan(known, graph, targets, type) ==
  planOf(known, getPackagesToUpdate(graph, targets), targets, type)

----------------------------------------------------------------------------
(* Initial workspaces *)

V100 == Version(1, 0, 0, "")

Caret(version) == Specifier(FALSE, "^", version)
Tilde(version) == Specifier(FALSE, "~", version)
Star == Specifier(FALSE, "*", NoVer)
WorkspaceCaretOf(version) == Specifier(TRUE, "^", version)

\* what one package declares on one dependency name in its three maps
Decl(deps, dev, peer) ==
  [dependencies |-> deps, devDependencies |-> dev, peerDependencies |-> peer]

NoDecl == Decl(NoSpec, NoSpec, NoSpec)

\* the workspace with the given versions and declarations
\* (decl[p][d] is what p declares on d)
Workspace(version, decl) ==
  [n \in Names |->
     Package(version[n],
             [d \in DepNames |-> decl[n][d].dependencies],
             [d \in DepNames |-> decl[n][d].devDependencies],
             [d \in DepNames |-> decl[n][d].peerDependencies])]

\* the declarations of a workspace where a declares ab on b, b declares ba
\* on a, c declares ca on a and cb on b, and a declares ax on a name outside
\* the workspace
Decls(ab, ba, ca, cb, ax) ==
  [n \in Names |-> [d \in DepNames |->
     CASE n = "a" /\ d = "b" -> ab
       [] n = "b" /\ d = "a" -> ba
       [] n = "c" /\ d = "a" -> ca
       [] n = "c" /\ d = "b" -> cb
       [] n = "a" /\ d = Unknown -> ax
       [] OTHER -> NoDecl]]

\* declarations that put one specifier in each map
MixedDecls ==
  LET S == {NoSpec, WorkspaceStar, Caret(V100), WorkspaceExact(V100)}
  IN  {Decl(s1, s2, s3) : s1 \in S, s2 \in S, s3 \in S}

\* declarations with a single entry, in dependencies
SingleDecls ==
  {Decl(s, NoSpec, NoSpec) :
     s \in {NoSpec, WorkspaceCaret, WorkspaceTilde, Star, Bare(V100),
            WorkspaceCaretOf(V100)}}

\* what a and b declare on each other
MutualDecls ==
  {<<NoDecl, NoDecl>>,
   <<Decl(NoSpec, Bare(V100), NoSpec), NoDecl>>,
   <<Decl(NoSpec, Bare(V100), NoSpec), Decl(WorkspaceStar, NoSpec, NoSpec)>>,
   <<NoDecl, Decl(NoSpec, NoSpec, Tilde(V100))>>}

\* the workspaces with many shapes of declarations
DeclWorkspaces ==
  {Workspace([n \in Names |-> IF n = "b" THEN Version(0, 1, 0, "") ELSE V100],
             Decls(m[1], m[2], ca, cb, Decl(Bare(V100), NoSpec, NoSpec))) :
     m \in MutualDecls, ca \in MixedDecls, cb \in SingleDecls}

\* the workspaces with many versions: a depends on b@1.0.0 and c on
\* b@workspace:*
VersionWorkspaces ==
  {Workspace([n \in Names |-> CASE n = "a" -> va [] n = "b" -> vb [] OTHER -> V100],
             Decls(Decl(Bare(V100), NoSpec, NoSpec), NoDecl, NoDecl,
                   Decl(WorkspaceStar, NoSpec, NoSpec), NoDecl)) :
     va \in AllVersions, vb \in {V100, Version(0, 1, 1, "alpha"), InvalidVersion}}

\* a plan with at most one strategy per package, in package order
PlanOf(types) ==
  LET chosen == SelectSeq(PackageOrder, LAMBDA n : types[n] # "")
  IN  [i \in 1..Len(chosen) |-> Strategy(types[chosen[i]], chosen[i], "direct")]

Plans == {PlanOf(types) : types \in [Names -> BumpTypes \cup {""}]}

PatchOrMajorPlans == {PlanOf(types) : types \in [Names -> {"", "patch", "major"}]}

----------------------------------------------------------------------------
(* Specification SpecApply: batchUpdateVersions(packages, strategies) *)

InitApply ==
  /\ pc = "apply"
  /\ \/ manifest \in DeclWorkspaces /\ strategies \in PatchOrMajorPlans
     \/ manifest \in VersionWorkspaces /\ strategies \in Plans
  /\ packages = manifest
  /\ before = manifest
  /\ dependencyGraph = [n \in Names |-> {}]
  /\ targetPackages = <<>>
  /\ newCommits = [n \in Names |-> <<>>]
  /\ bumpType = ""
  /\ dryRun = FALSE
  /\ toUpdate = <<>>
  /\ versionChanges = <<>>
  /\ conflicts = <<>>
  /\ written = <<>>
  /\ call = <<>>
  /\ error = ""
  /\ CacheUnused

\* the first loop: every new version is computed before any write
BatchCompute ==
  /\ pc = "apply"
  /\ LET r == computeVersionChanges(packages, strategies, <<>>)
     IN  /\ versionChanges' = r.changes
         /\ error' = IF r.threw THEN "cannot compute new version" ELSE ""
         /\ pc' = IF r.threw THEN "failed" ELSE "computed"
  /\ UNCHANGED cacheVars
  /\ UNCHANGED <<manifest, packages, dependencyGraph, targetPackages,
                 newCommits, bumpType, dryRun, toUpdate, strategies,
                 conflicts, written, before, call>>

\* the second loop: executeVersionUpdate for every strategy
BatchVersions ==
  /\ pc = "computed"
  /\ LET w == updateVersions(World(manifest, packages, written), strategies,
                             versionChanges)
     IN  /\ manifest' = w.manifest
         /\ packages' = w.packages
         /\ written' = w.written
  /\ pc' = "versioned"
  /\ UNCHANGED cacheVars
  /\ UNCHANGED <<dependencyGraph, targetPackages, newCommits, bumpType,
                 dryRun, toUpdate, strategies, versionChanges, conflicts,
                 before, call, error>>

\* updateDependencyVersions(packages, versionChanges)
BatchDependencies ==
  /\ pc = "versioned"
  /\ LET w == updateDependencyVersions(World(manifest, packages, written),
                                       PackageOrder, versionChanges)
     IN  /\ manifest' = w.manifest
         /\ packages' = w.packages
         /\ written' = w.written
  /\ pc' = "applied"
  /\ UNCHANGED cacheVars
  /\ UNCHANGED <<dependencyGraph, targetPackages, newCommits, bumpType,
                 dryRun, toUpdate, strategies, versionChanges, conflicts,
                 before, call, error>>

NextApply == BatchCompute \/ BatchVersions \/ BatchDependencies

SpecApply == InitApply /\ [][NextApply]_vars

\* the packages that the call bumped
Bumped == {versionChanges[i].package : i \in 1..Len(versionChanges)}

\* the new version of a bumped package
NewVersionOf(name) == (CHOOSE c \in MapGet(versionChanges, name) : TRUE).new

\* the three workspace wildcard forms, as the claims name them
WildcardForms == {WorkspaceStar, WorkspaceCaret, WorkspaceTilde}

AllDeclaredRewritten ==
  pc = "applied" =>
    \A p \in Names : \A b \in Bumped : \A m \in DepMaps :
      (Truthy(before[p][m][b]) /\ before[p][m][b] \notin WildcardForms)
        => manifest[p][m][b] \in {Bare(NewVersionOf(b)),
                                  WorkspaceExact(NewVersionOf(b))}

\* C5: a specifier on a bumped package that the applier changed is
\* workspace:V when it started with workspace: and the bare V otherwise,
\* V being the bumped package's new version.
RewrittenForm ==
  pc = "applied" =>
    \A p \in Names : \A b \in Bumped : \A m \in DepMaps :
      manifest[p][m][b] # before[p][m][b] =>
        manifest[p][m][b] = IF before[p][m][b].ws
                              THEN WorkspaceExact(NewVersionOf(b))
                              ELSE Bare(NewVersionOf(b))

\* c declared workspace:1.0.0 and ^1.0.0 on a, workspace:^1.0.0 on b, and
\* both were bumped
RewrittenFormWitness ==
  /\ pc = "applied"
  /\ before["c"].dependencies["a"] = WorkspaceExact(V100)
  /\ before["c"].devDependencies["a"] = Caret(V100)
  /\ before["c"].dependencies["b"] = WorkspaceCaretOf(V100)
  /\ {"a", "b"} \subseteq Bumped
  /\ manifest["c"].dependencies["a"] = WorkspaceExact(NewVersionOf("a"))
  /\ manifest["c"].devDependencies["a"] = Bare(NewVersionOf("a"))
  /\ manifest["c"].dependencies["b"] = WorkspaceExact(NewVersionOf("b"))
  /\ NewVersionOf("a") # V100

\* C6: once the versions are written, the manifest of every package with a
\* strategy holds a version strictly greater than the one it had before
\* the call.
VersionsIncrease ==
  pc \in {"versioned", "applied"} =>
    \A i \in 1..Len(strategies) :
      compareVersions(manifest[strategies[i].package].version,
                      before[strategies[i].package].version) = 1

\* a major bump of the prerelease 1.0.0-alpha (to 1.0.0), next to a patch
\* bump of a release
VersionsIncreaseWitness ==
  /\ pc = "applied"
  /\ before["a"].version = Version(1, 0, 0, "alpha")
  /\ \E i \in 1..Len(strategies) :
       strategies[i].package = "a" /\ strategies[i].type = "major"
  /\ manifest["a"].version = V100
  /\ \E i \in 1..Len(strategies) :
       strategies[i].package = "b" /\ strategies[i].type = "patch"
  /\ manifest["b"].version = Version(1, 0, 1, "")

\* some strategy names a package whose current version semver cannot parse
PlanHasInvalidVersion ==
  \E i \in 1..Len(strategies) :
    /\ strategies[i].package \in Names
    /\ ~validateVersion(before[strategies[i].package].version)

\* C23: when the current version of a package of the plan is not a valid
\* semantic version, batchUpdateVersions fails, and no manifest and no
\* in-memory record has been modified (nothing was written).
InvalidVersionAbortsBeforeWrite ==
  (pc # "apply" /\ PlanHasInvalidVersion) =>
    /\ pc = "failed"
    /\ error # ""
    /\ manifest = before
    /\ packages = before
    /\ written = <<>>

\* the plan bumps a (valid) before b (not parsable): the call failed
InvalidVersionWitness ==
  /\ pc = "failed"
  /\ Len(strategies) >= 2
  /\ strategies[1].package = "a"
  /\ validateVersion(before["a"].version)
  /\ strategies[2].package = "b"
  /\ before["b"].version = InvalidVersion
  /\ manifest["a"].version = before["a"].version

\* C25 (as claimed): after batchUpdateVersions completes, every in-memory
\* package record carries the same version and the same dependency
\* specifiers, in all three maps, as that package's manifest on disk.
RecordsMatchManifests ==
  pc = "applied" => \A p \in Names : packages[p] = manifest[p]

\* C30 (as claimed): a bumped package that declares a non-wildcard
\* specifier on another bumped package ends batchUpdateVersions with a
\* manifest that holds its own new version and, in place of that
\* specifier, the other package's new version.
BumpedKeepsVersionAndSpecifier ==
  pc = "applied" =>
    \A p \in Bumped : \A b \in Bumped \ {p} : \A m \in DepMaps :
      (Truthy(before[p][m][b]) /\ before[p][m][b] \notin WildcardForms) =>
        /\ manifest[p].version = NewVersionOf(p)
        /\ manifest[p][m][b] \in {Bare(NewVersionOf(b)),
                                  WorkspaceExact(NewVersionOf(b))}

----------------------------------------------------------------------------
(* Specification SpecExec: one call executeVersionUpdate(pkg, newVersion) *)

NoCall == [name |-> "", newVersion |-> NoVer]

InitExec ==
  /\ pc = "start"
  /\ manifest \in VersionWorkspaces
  /\ packages = manifest
  /\ before = manifest
  /\ call = NoCall
  /\ strategies = <<>>
  /\ dependencyGraph = [n \in Names |-> {}]
  /\ targetPackages = <<>>
  /\ newCommits = [n \in Names |-> <<>>]
  /\ bumpType = ""
  /\ dryRun = FALSE
  /\ toUpdate = <<>>
  /\ versionChanges = <<>>
  /\ conflicts = <<>>
  /\ written = <<>>
  /\ error = ""
  /\ CacheUnused

\* executeVersionUpdate(packageInfo, newVersion) of src/core/version.ts: no
\* test of newVersion precedes the write, and nothing in it throws for a
\* package that exists
ExecuteVersionUpdate ==
  /\ pc = "start"
  /\ \E name \in Names : \E newVersion \in AllVersions :
       LET w == executeVersionUpdate(World(manifest, packages, written),
                                     name, newVersion)
       IN  /\ call' = [name |-> name, newVersion |-> newVersion]
           /\ manifest' = w.manifest
           /\ packages' = w.packages
           /\ written' = w.written
  /\ error' = ""
  /\ pc' = "done"
  /\ UNCHANGED cacheVars
  /\ UNCHANGED <<dependencyGraph, targetPackages, newCommits, bumpType,
                 dryRun, toUpdate, strategies, versionChanges, conflicts,
                 before>>

NextExec == ExecuteVersionUpdate

SpecExec == InitExec /\ [][NextExec]_vars

\* C7 (as claimed): a call of executeVersionUpdate whose new version is not
\* a valid version, or is not greater than the current (valid) version of
\* the package, ends in an error and leaves manifest and record as they
\* were.
NonIncreasingRejected ==
  (/\ pc = "done"
   /\ validateVersion(before[call.name].version)
   /\ \/ ~validateVersion(call.newVersion)
      \/ compareVersions(call.newVersion, before[call.name].version) # 1)
    => /\ error # ""
       /\ manifest = before
       /\ packages = before

----------------------------------------------------------------------------
(* Conflict Checker: VersionManager.checkVersionConflicts (dist/index.js) *)

Conflict(dependent, package, required, newVersion) ==
  [dependent |-> dependent, package |-> package, required |-> required,
   newVersion |-> newVersion]

\* a faulty variant of conflictsOfStrategy that reads the dependencies map only
conflictsOfStrategyDepsOnly(pkgs, graph, strategy) ==
  LET new == calculateNewVersion(pkgs[strategy.package].version, strategy.type)
      dependents == getDependentPackages(graph, strategy.package)
      conflicting ==
        SelectSeq(dependents, LAMBDA d :
          LET requiredVersion == pkgs[d].dependencies[strategy.package]
          IN  Truthy(requiredVersion)
                /\ ~semverSatisfies(new.version, requiredVersion))
  IN  IF new.threw
        THEN <<Conflict("", strategy.package, NoSpec, InvalidVersion)>>
        ELSE [i \in 1..Len(conflicting) |->
                Conflict(conflicting[i], strategy.package,
                         pkgs[conflicting[i]].dependencies[strategy.package],
                         new.version)]

\* the body of the loop over the strategies for a known package: the
\* conflicts it pushes. A throw of calculateNewVersion is caught and pushed
\* as a conflict that names the package itself.
conflictsOfStrategy(pkgs, graph, strategy) ==
  LET new == calculateNewVersion(pkgs[strategy.package].version, strategy.type)
      required(d) == FirstTruthy(pkgs[d].dependencies[strategy.package],
                                 pkgs[d].devDependencies[strategy.package],
                                 pkgs[d].peerDependencies[strategy.package])
      dependents == getDependentPackages(graph, strategy.package)
      conflicting ==
        SelectSeq(dependents, LAMBDA d :
          Truthy(required(d)) /\ ~semverSatisfies(new.version, required(d)))
  IN  IF new.threw
        THEN <<Conflict("", strategy.package, NoSpec, InvalidVersion)>>
        ELSE [i \in 1..Len(conflicting) |->
                Conflict(conflicting[i], strategy.package,
                         required(conflicting[i]), new.version)]

RECURSIVE checkVersionConflicts(_, _, _)

\* checkVersionConflicts(packages, strategies), with this.dependencyGraph
checkVersionConflicts(pkgs, graph, strats) ==
  IF strats = <<>>
    THEN <<>>
    ELSE (IF Head(strats).package \in Names
            THEN conflictsOfStrategy(pkgs, graph, Head(strats))
            ELSE <<>>)
         \o checkVersionConflicts(pkgs, graph, Tail(strats))

----------------------------------------------------------------------------
(* Specification SpecConflict: checkVersionConflicts(packages, strategies) *)

\* the specifiers that are semver ranges
RangeSpecs ==
  {Star} \cup {Bare(v) : v \in ReleaseVersions}
         \cup {Caret(v) : v \in ReleaseVersions}
         \cup {Tilde(v) : v \in ReleaseVersions}

WorkspaceSpecs ==
  {WorkspaceStar, WorkspaceCaret, WorkspaceTilde, WorkspaceExact(V100)}

\* one specifier in one of the three maps, or a range behind a first entry
FirstMatchDecls ==
  UNION {{Decl(s, NoSpec, NoSpec), Decl(NoSpec, s, NoSpec),
          Decl(NoSpec, NoSpec, s), Decl(Caret(V100), s, NoSpec)} :
         s \in RangeSpecs \cup WorkspaceSpecs}

\* b has any version, a declares anything on b and c a range or a wildcard
ConflictWorkspaces ==
  {Workspace([n \in Names |-> IF n = "b" THEN vb ELSE V100],
             Decls(ab, NoDecl, NoDecl, cb, NoDecl)) :
     vb \in AllVersions, ab \in FirstMatchDecls,
     cb \in {Decl(NoSpec, NoSpec, Tilde(V100)),
             Decl(WorkspaceStar, NoSpec, NoSpec)}}

ConflictPlans ==
  {PlanOf([n \in Names |-> CASE n = "b" -> tb [] n = "a" -> ta [] OTHER -> ""]) :
     tb \in BumpTypes, ta \in {"", "patch"}}

InitConflict ==
  /\ pc = "start"
  /\ manifest \in ConflictWorkspaces
  /\ packages = manifest
  /\ before = manifest
  /\ dependencyGraph = buildDependencyGraph(manifest)
  /\ strategies \in ConflictPlans
  /\ targetPackages = <<>>
  /\ newCommits = [n \in Names |-> <<>>]
  /\ bumpType = ""
  /\ dryRun = FALSE
  /\ toUpdate = <<>>
  /\ versionChanges = <<>>
  /\ conflicts = <<>>
  /\ written = <<>>
  /\ call = <<>>
  /\ error = ""
  /\ CacheUnused

CheckVersionConflicts ==
  /\ pc = "start"
  /\ conflicts' = checkVersionConflicts(packages, dependencyGraph, strategies)
  /\ pc' = "checked"
  /\ UNCHANGED cacheVars
  /\ UNCHANGED <<manifest, packages, dependencyGraph, targetPackages,
                 newCommits, bumpType, dryRun, toUpdate, strategies,
                 versionChanges, written, before, call, error>>

NextConflict == CheckVersionConflicts

SpecConflict == InitConflict /\ [][NextConflict]_vars

\* the specifier a package declares on another: the first of dependencies,
\* devDependencies, peerDependencies
DeclaredOn(dependent, package) ==
  FirstTruthy(packages[dependent].dependencies[package],
              packages[dependent].devDependencies[package],
              packages[dependent].peerDependencies[package])

ConflictNames(dependent, package) ==
  \E i \in 1..Len(conflicts) :
    conflicts[i].dependent = dependent /\ conflicts[i].package = package

\* C8: for every strategy that bumps B to a candidate V and every package D
\* whose first declared specifier on B is a semver range R, the checker
\* reports a conflict naming D and B if and only if V does not satisfy R.
ConflictIffUnsatisfied ==
  pc = "checked" =>
    \A i \in 1..Len(strategies) : \A d \in Names :
      LET b == strategies[i].package
          new == calculateNewVersion(packages[b].version, strategies[i].type)
          r == DeclaredOn(d, b)
      IN  (~new.threw /\ r \in RangeSpecs) =>
            (ConflictNames(d, b) <=> ~semverSatisfies(new.version, r))

\* b 0.1.0 -> 0.1.1: a, with peer ^0.1.0, is satisfied and not reported; c,
\* with ~1.0.0, is reported
ConflictWitness ==
  /\ pc = "checked"
  /\ packages["b"].version = Version(0, 1, 0, "")
  /\ \E i \in 1..Len(strategies) :
       strategies[i].package = "b" /\ strategies[i].type = "patch"
  /\ DeclaredOn("a", "b") = Caret(Version(0, 1, 0, ""))
  /\ packages["a"].peerDependencies["b"] = Caret(Version(0, 1, 0, ""))
  /\ DeclaredOn("c", "b") = Tilde(V100)
  /\ ~ConflictNames("a", "b")
  /\ ConflictNames("c", "b")

\* C9 (as claimed): the checker reports no conflict for a dependent whose
\* specifier on the bumped package is workspace:*, workspace:^ or
\* workspace:~.
NoConflictForWildcard ==
  pc = "checked" =>
    \A i \in 1..Len(conflicts) : conflicts[i].required \notin WildcardForms

----------------------------------------------------------------------------
(* Cache Manager (CacheManager): the cache file and its operations *)

\* const maxAge = 7 * 24 * 60 * 60 * 1000
maxAge == 7 * 24 * 60 * 60 * 1000

\* getTime() of an Invalid Date (NaN): new Date(undefined), new Date("?")
InvalidDate == -1

\* null, as a returned commit hash
NullValue == "null"

\* an object without keys ({}), as a map from package names to hashes
EmptyCommits == [n \in {} |-> ""]

\* The content of the cache file. A file is missing, holds text that
\* JSON.parse rejects, or holds JSON: null, or an object. Of an object the
\* model keeps the three fields the code reads: lastCommitHash ("" also
\* when the field is absent), the time new Date(lastUpdateTime) gives
\* (InvalidDate when the field is absent or no date; null reads as 0) and
\* packageCommits, which may be absent.
GarbageFile == [kind |-> "garbage"]
JsonNull == [kind |-> "json", isObject |-> FALSE]
JsonObject(hash, time, hasCommits, commits) ==
  [kind |-> "json", isObject |-> TRUE, lastCommitHash |-> hash,
   lastUpdateTime |-> time, hasPackageCommits |-> hasCommits,
   packageCommits |-> commits]

\* the value readCache resolves to: null, or the CacheData object
NullCache == [isNull |-> TRUE]
CacheData(hash, time, hasCommits, commits) ==
  [isNull |-> FALSE, lastCommitHash |-> hash, lastUpdateTime |-> time,
   hasPackageCommits |-> hasCommits, packageCommits |-> commits]

\* CacheManager.readCache: null when the file is missing, when JSON.parse
\* throws and when data is null (data.lastUpdateTime throws; both are
\* caught); otherwise the parsed fields with lastUpdateTime as a Date
readCache(file) ==
  IF file.kind # "json"
    THEN NullCache
    ELSE IF ~file.isObject
      THEN NullCache
      ELSE CacheData(file.lastCommitHash, file.lastUpdateTime,
                     file.hasPackageCommits, file.packageCommits)

\* JSON.stringify of a Date: an Invalid Date is written as null, which
\* new Date(null) reads back as time 0
stringifyDate(time) == IF time = InvalidDate THEN 0 ELSE time

\* CacheManager.writeCache: the file that JSON.stringify(data) gives
writeCache(data) ==
  JsonObject(data.lastCommitHash, stringifyDate(data.lastUpdateTime),
             data.hasPackageCommits, data.packageCommits)

\* readCache() || { lastCommitHash: '', lastUpdateTime: new Date(),
\*                  packageCommits: {} }
readCacheOrDefault(file, clock) ==
  IF readCache(file).isNull
    THEN CacheData("", clock, TRUE, EmptyCommits)
    ELSE readCache(file)

\* what an operation gives back: a returned value, or a thrown TypeError
Returned(value) == [threw |-> FALSE, value |-> value]
Threw == [threw |-> TRUE, value |-> NullValue]

\* CacheManager.getPackageLastCommit: cache?.packageCommits[name] || null
getPackageLastCommit(file, packageName) ==
  LET cache == readCache(file)
  IN  IF cache.isNull
        THEN Returned(NullValue)
        ELSE IF ~cache.hasPackageCommits
          THEN Threw
          ELSE IF /\ packageName \in DOMAIN cache.packageCommits
                  /\ cache.packageCommits[packageName] # ""
            THEN Returned(cache.packageCommits[packageName])
            ELSE Returned(NullValue)

\* CacheManager.getGlobalLastCommit: cache?.lastCommitHash || null
getGlobalLastCommit(file) ==
  LET cache == readCache(file)
  IN  IF cache.isNull \/ cache.lastCommitHash = ""
        THEN Returned(NullValue)
        ELSE Returned(cache.lastCommitHash)

\* CacheManager.getAllPackageCommits: cache?.packageCommits || {}
getAllPackageCommits(file) ==
  LET cache == readCache(file)
  IN  IF cache.isNull \/ ~cache.hasPackageCommits
        THEN Returned(EmptyCommits)
        ELSE Returned(cache.packageCommits)

\* a faulty variant of validateCache that accepts a cache of exactly maxAge
validateCacheInclusive(file, clock) ==
  LET cache == readCache(file)
  IN  IF cache.isNull
        THEN FALSE
        ELSE /\ cache.lastUpdateTime # InvalidDate
             /\ clock - cache.lastUpdateTime <= maxAge

\* CacheManager.validateCache: cacheAge < maxAge, false for NaN
validateCache(file, clock) ==
  LET cache == readCache(file)
  IN  IF cache.isNull
        THEN FALSE
        ELSE /\ cache.lastUpdateTime # InvalidDate
             /\ clock - cache.lastUpdateTime < maxAge

\* the status record; the two last fields are set when the cache exists
CacheStatus(exists, valid, time, count) ==
  [exists |-> exists, valid |-> valid, lastUpdateTime |-> time,
   packageCount |-> count]

\* CacheManager.getCacheStatus: Object.keys(cache.packageCommits) throws
\* when the field is absent
getCacheStatus(file, clock) ==
  LET cache == readCache(file)
  IN  IF cache.isNull
        THEN Returned(CacheStatus(FALSE, FALSE, InvalidDate, 0))
        ELSE IF ~cache.hasPackageCommits
          THEN Threw
          ELSE Returned(CacheStatus(TRUE, validateCache(file, clock),
                                    cache.lastUpdateTime,
                                    Cardinality(DOMAIN cache.packageCommits)))

\* what a writing operation leaves: the file, and whether it threw
Wrote(file) == [threw |-> FALSE, file |-> file]
Failed(file) == [threw |-> TRUE, file |-> file]

\* a faulty variant of Object.assign that drops the keys of the target
ObjectAssignFresh(target, updates) == updates

\* Object.assign(target, updates)
ObjectAssign(target, updates) ==
  [n \in DOMAIN target \cup DOMAIN updates |->
     IF n \in DOMAIN updates THEN updates[n] ELSE target[n]]

\* CacheManager.batchUpdatePackageCommits: Object.assign throws on an
\* absent packageCommits, before anything is written
batchUpdatePackageCommits(file, updates, clock) ==
  LET cache == readCacheOrDefault(file, clock)
  IN  IF ~cache.hasPackageCommits
        THEN Failed(file)
        ELSE Wrote(writeCache(CacheData(cache.lastCommitHash, clock, TRUE,
                                        ObjectAssign(cache.packageCommits,
                                                     updates))))

\* CacheManager.updatePackageCommit
updatePackageCommit(file, packageName, commitHash, clock) ==
  batchUpdatePackageCommits(file, [n \in {packageName} |-> commitHash], clock)

\* CacheManager.setGlobalLastCommit
setGlobalLastCommit(file, commitHash, clock) ==
  LET cache == readCacheOrDefault(file, clock)
  IN  Wrote(writeCache(CacheData(commitHash, clock, cache.hasPackageCommits,
                                 cache.packageCommits)))

\* CacheManager.clearCache
clearCache(file) == Wrote(NoFile)

\* A CHANGELOG.md: without a metadata block (or no file), with a block
\* that JSON.parse rejects, or with a block of a package name, a commit
\* hash and a time (InvalidDate when new Date() cannot read it)
NoBlock == [kind |-> "absent"]
GarbageBlock == [kind |-> "garbage"]
Block(packageName, hash, time) ==
  [kind |-> "block", packageName |-> packageName, lastCommitHash |-> hash,
   lastUpdateTime |-> time]

\* CacheManager.extractMetadataFromChangelog: null unless the block parses
extractMetadataFromChangelog(changelog) ==
  IF changelog.kind = "block"
    THEN [isNull |-> FALSE, packageName |-> changelog.packageName,
          lastCommitHash |-> changelog.lastCommitHash,
          lastUpdateTime |-> changelog.lastUpdateTime]
    ELSE [isNull |-> TRUE]

\* metadata.lastUpdateTime > new Date(cache.lastUpdateTime); a comparison
\* with NaN is false
DateAfter(t, u) == t # InvalidDate /\ u # InvalidDate /\ t > u

RECURSIVE scanChangelogs(_, _, _)

\* the loop of rebuildCache over packagePaths
scanChangelogs(logs, cache, packagePaths) ==
  IF packagePaths = <<>>
    THEN cache
    ELSE LET metadata == extractMetadataFromChangelog(logs[Head(packagePaths)])
         IN  IF metadata.isNull
               THEN scanChangelogs(logs, cache, Tail(packagePaths))
               ELSE LET commits ==
                          ObjectAssign(cache.packageCommits,
                                       [n \in {metadata.packageName} |->
                                          metadata.lastCommitHash])
                        newer ==
                          \/ cache.lastCommitHash = ""
                          \/ DateAfter(metadata.lastUpdateTime,
                                       cache.lastUpdateTime)
                    IN  scanChangelogs(
                          logs,
                          CacheData(IF newer THEN metadata.lastCommitHash
                                             ELSE cache.lastCommitHash,
                                    IF newer THEN metadata.lastUpdateTime
                                             ELSE cache.lastUpdateTime,
                                    TRUE, commits),
                          Tail(packagePaths))

\* CacheManager.rebuildCache
rebuildCache(logs, packagePaths, clock) ==
  Wrote(writeCache(scanChangelogs(logs,
                                  CacheData("", clock, TRUE, EmptyCommits),
                                  packagePaths)))

\* the time at which the run starts
Clock0 == maxAge + 10

\* the hash of the latest commit of a package
HashOf(n) == CASE n = "a" -> "ha" [] n = "b" -> "hb" [] OTHER -> "hc"

\* ChangelogGenerator.updateChangelog, on the metadata block of the file: a
\* new file is generated with the metadata block; into an existing file
\* insertNewEntry puts the entry lines and nothing of the metadata
updateChangelog(changelog, packageName, lastCommitHash, clock) ==
  IF changelog = NoFile
    THEN Block(packageName, lastCommitHash, clock)
    ELSE changelog

----------------------------------------------------------------------------
(* Specification Spec: one run of UpdateCommand.execute (src/commands) *)

\* no package has been loaded
NoPackages == [n \in Names |-> [version |-> "none"]]

\* a depends on b (or not), b and c carry wildcards (or not), a also names
\* a package outside the workspace; the version of c may be unparsable
RunWorkspaces ==
  {Workspace([n \in Names |-> IF n = "c" THEN vc ELSE V100],
             Decls(ab, ba, NoDecl, cb, Decl(WorkspaceStar, NoSpec, NoSpec))) :
     vc \in {V100, InvalidVersion},
     ab \in {NoDecl, Decl(Bare(V100), NoSpec, NoSpec),
             Decl(NoSpec, NoSpec, Caret(V100))},
     ba \in {NoDecl, Decl(NoSpec, WorkspaceStar, NoSpec)},
     cb \in {NoDecl, Decl(WorkspaceStar, NoSpec, NoSpec)}}

\* the commits the log reader finds for a package since its cached commit
Histories ==
  {[n \in Names |-> CASE n = "a" -> ha [] n = "b" -> hb [] OTHER -> hc] :
     ha \in {<<>>, <<MsgFix>>, <<MsgFix, MsgFeat>>},
     hb \in {<<>>, <<MsgFix>>, <<MsgFix, MsgFeat>>},
     hc \in {<<>>, <<MsgFeatBang>>}}

\* --all, or --packages with a non-empty list of names
RunOptions ==
  {[all |-> TRUE, requested |-> <<>>, history |-> h] : h \in Histories}
    \cup {[all |-> FALSE, requested |-> r, history |-> h] :
            r \in SeqsUpTo(DepNames, MaxTargets) \ {<<>>}, h \in Histories}

\* the files an earlier run left: the cache file records a commit of a; a
\* has a CHANGELOG.md with a metadata block, b has one without, c has none
RunCacheFile == JsonObject("h0", 10, TRUE, [n \in {"a"} |-> "h0"])
RunChangelogFiles ==
  [n \in Names |-> CASE n = "a" -> Block("a", "h0", 10)
                     [] n = "b" -> NoBlock
                     [] OTHER -> NoFile]

\* the hash getLatestCommitHash returns (the repository has a commit)
LatestCommitHash == "hh"

Init ==
  /\ pc = "start"
  /\ manifest \in RunWorkspaces
  /\ packages = NoPackages
  /\ before = manifest
  /\ call \in RunOptions
  /\ bumpType \in {"", "patch", "major"}
  /\ dryRun \in BOOLEAN
  /\ dependencyGraph = [n \in Names |-> {}]
  /\ targetPackages = <<>>
  /\ newCommits = [n \in Names |-> <<>>]
  /\ toUpdate = <<>>
  /\ strategies = <<>>
  /\ versionChanges = <<>>
  /\ conflicts = <<>>
  /\ written = <<>>
  /\ error = ""
  /\ result = NoResult
  /\ cacheFile = RunCacheFile
  /\ changelogs = RunChangelogFiles
  /\ now = Clock0
  /\ configFile = NoFile

\* steps 3 to 8 of execute: getPackages, initializeVersionManager,
\* determineTargetPackages, getNewCommits, createUpdateStrategies
RunPlan ==
  /\ pc = "start"
  /\ packages' = manifest
  /\ dependencyGraph' = buildDependencyGraph(manifest)
  /\ targetPackages' = determineTargetPackages(call.all, call.requested)
  /\ newCommits' = getNewCommits(targetPackages', call.history)
  /\ toUpdate' = getPackagesToUpdate(dependencyGraph', targetPackages')
  /\ strategies' = createUpdateStrategies(packages', toUpdate', targetPackages',
                                          newCommits', bumpType)
  /\ pc' = "planned"
  /\ UNCHANGED cacheVars
  /\ UNCHANGED <<manifest, bumpType, dryRun, versionChanges, conflicts,
                 written, before, call, error>>

\* step 10 with --dry-run: previewUpdate only prints
RunPreview ==
  /\ pc = "planned"
  /\ dryRun
  /\ pc' = "finished"
  /\ UNCHANGED cacheVars
  /\ UNCHANGED <<manifest, packages, dependencyGraph, targetPackages,
                 newCommits, bumpType, dryRun, toUpdate, strategies,
                 versionChanges, conflicts, written, before, call, error>>

\* executeUpdate step 1, calculateVersionChanges: a throw of
\* calculateNewVersion ends the run; otherwise batchUpdateVersions is
\* entered
RunCalculateVersionChanges ==
  /\ pc = "planned"
  /\ ~dryRun
  /\ LET r == computeVersionChanges(packages, strategies, <<>>)
     IN  /\ error' = IF r.threw THEN "cannot compute new version" ELSE ""
         /\ pc' = IF r.threw THEN "failed" ELSE "apply"
  /\ UNCHANGED cacheVars
  /\ UNCHANGED <<manifest, packages, dependencyGraph, targetPackages,
                 newCommits, bumpType, dryRun, toUpdate, strategies,
                 versionChanges, conflicts, written, before, call>>

\* getDependencyUpdateStrategies(...).filter(packageName === name): one
\* record per map of the package that names a changed package
DependencyUpdatesOf(name) ==
  {<<d, m>> \in Bumped \X DepMaps : Truthy(packages[name][m][d])}

\* the packages updateChangelogFiles writes a CHANGELOG.md for, in order
ChangelogTargets ==
  SelectSeq([i \in 1..Len(strategies) |-> strategies[i].package],
            LAMBDA n : n \in Names
                       /\ (newCommits[n] # <<>> \/ DependencyUpdatesOf(n) # {}))

\* the hash updateChangelogFiles hands to generatePackageChangelog
latestCommitOf(name) == IF newCommits[name] # <<>> THEN HashOf(name) ELSE ""

\* the CHANGELOG.md files after generatePackageChangelog ran for targets
changelogsAfter(targets) ==
  [n \in Names |->
     IF \E i \in 1..Len(targets) : targets[i] = n
       THEN updateChangelog(changelogs[n], n, latestCommitOf(n), now)
       ELSE changelogs[n]]

runFrame == <<manifest, packages, dependencyGraph, targetPackages, newCommits,
              bumpType, dryRun, toUpdate, strategies, versionChanges,
              conflicts, before, call>>

\* batchUpdateVersions, second loop: writeFileSync of a manifest throws at
\* the strategy after the first k
BatchVersionsFail ==
  /\ pc = "computed"
  /\ \E k \in 0..(Len(strategies) - 1) :
       LET w == updateVersions(World(manifest, packages, written),
                               SubSeq(strategies, 1, k), versionChanges)
       IN  /\ manifest' = w.manifest
           /\ packages' = w.packages
           /\ written' = w.written
  /\ error' = "cannot write manifest"
  /\ pc' = "failed"
  /\ UNCHANGED cacheVars
  /\ UNCHANGED <<dependencyGraph, targetPackages, newCommits, bumpType,
                 dryRun, toUpdate, strategies, versionChanges, conflicts,
                 before, call>>

\* executeUpdate step 3: updateChangelogFiles
RunChangelogs ==
  /\ pc = "applied"
  /\ changelogs' = changelogsAfter(ChangelogTargets)
  /\ written' = written \o [i \in 1..Len(ChangelogTargets) |->
                              Write("changelog", ChangelogTargets[i])]
  /\ pc' = "changelogs"
  /\ UNCHANGED <<result, cacheFile, now, configFile, error>>
  /\ UNCHANGED runFrame

\* updateChangelogFiles: writeFileSync of a CHANGELOG.md throws at the
\* target after the first k
RunChangelogsFail ==
  /\ pc = "applied"
  /\ \E k \in 0..(Len(ChangelogTargets) - 1) :
       /\ changelogs' = changelogsAfter(SubSeq(ChangelogTargets, 1, k))
       /\ written' = written \o [i \in 1..k |->
                                   Write("changelog", ChangelogTargets[i])]
  /\ error' = "cannot write changelog"
  /\ pc' = "failed"
  /\ UNCHANGED <<result, cacheFile, now, configFile>>
  /\ UNCHANGED runFrame

\* packageCommits of updateCache: commits[0].hash of every package of
\* newCommits that has a commit
packageCommitsOf(commits) ==
  [n \in {m \in Names : commits[m] # <<>>} |-> HashOf(n)]

\* a faulty variant of the run that updates the cache right after the
\* manifests, before the changelog files
RunCacheFirst ==
  /\ pc = "applied"
  /\ \A i \in 1..Len(written) : written[i].kind # "cache"
  /\ LET r == batchUpdatePackageCommits(cacheFile,
                                        packageCommitsOf(newCommits), now)
     IN  /\ ~r.threw
         /\ cacheFile' = setGlobalLastCommit(r.file, LatestCommitHash,
                                             now).file
  /\ written' = written \o <<Write("cache", ""), Write("cache", "")>>
  /\ UNCHANGED <<pc, result, now, changelogs, configFile, error>>
  /\ UNCHANGED runFrame

\* executeUpdate step 4: updateCache (batchUpdatePackageCommits, which may
\* throw, then setGlobalLastCommit)
RunCache ==
  /\ pc = "changelogs"
  /\ LET r == batchUpdatePackageCommits(cacheFile,
                                        packageCommitsOf(newCommits), now)
     IN  /\ cacheFile' = IF r.threw
                           THEN cacheFile
                           ELSE setGlobalLastCommit(r.file, LatestCommitHash,
                                                    now).file
         /\ written' = IF r.threw
                         THEN written
                         ELSE written \o <<Write("cache", ""),
                                           Write("cache", "")>>
         /\ error' = IF r.threw THEN "TypeError" ELSE ""
         /\ pc' = IF r.threw THEN "failed" ELSE "finished"
  /\ UNCHANGED <<result, now, changelogs, configFile>>
  /\ UNCHANGED runFrame

\* after the run: CacheManager.rebuildCache over the package paths; result
\* keeps the cache file the run wrote
RebuildAfterRun ==
  /\ pc = "finished"
  /\ ~dryRun
  /\ result' = [kind |-> "cache", value |-> cacheFile]
  /\ cacheFile' = rebuildCache(changelogs, PackageOrder, now).file
  /\ written' = Append(written, Write("cache", ""))
  /\ pc' = "rebuilt"
  /\ UNCHANGED <<now, changelogs, configFile, error>>
  /\ UNCHANGED runFrame

Next ==
  \/ RunPlan
  \/ RunPreview
  \/ RunCalculateVersionChanges
  \/ BatchCompute
  \/ BatchVersions
  \/ BatchVersionsFail
  \/ BatchDependencies
  \/ RunChangelogs
  \/ RunChangelogsFail
  \/ RunCache
  \/ RebuildAfterRun

Spec == Init /\ [][Next]_vars

HasStrategy(name) == \E i \in 1..Len(strategies) : strategies[i].package = name

\* C2 (as claimed): in every plan of the update command, when B has a
\* strategy and the dependency graph entry of A contains B, A has a
\* strategy too.
DependentsInPlan ==
  pc # "start" =>
    \A a \in Names : \A b \in Names :
      (HasStrategy(b) /\ b \in dependencyGraph[a]) => HasStrategy(a)

\* the candidate version of the strategy's package
CandidateOf(strategy) ==
  calculateNewVersion(before[strategy.package].version, strategy.type)

\* some dependent declares a semver range on a package of the plan that
\* the candidate version does not satisfy
PlanHasConflict ==
  \E i \in 1..Len(strategies) : \E d \in Names :
    LET r == FirstTruthy(before[d].dependencies[strategies[i].package],
                         before[d].devDependencies[strategies[i].package],
                         before[d].peerDependencies[strategies[i].package])
    IN  /\ ~CandidateOf(strategies[i]).threw
        /\ Truthy(r)
        /\ ~r.ws
        /\ ~semverSatisfies(CandidateOf(strategies[i]).version, r)

\* C10 (as claimed): when the plan holds a conflict the run aborts and
\* writes no manifest, changelog or cache file.
NoWriteOnConflict ==
  PlanHasConflict => written = <<>>

\* C16 (as claimed): the dependency graph maps each package only to names
\* of packages of the workspace, also when the declared specifier uses the
\* workspace: protocol.
GraphOnlyKnownNames ==
  pc # "start" => \A n \in Names : dependencyGraph[n] \subseteq Names

----------------------------------------------------------------------------
(* Specification SpecBump: one call of calculateVersionBump *)

Tokens == {"feat", "fix", "!", ":", "(", ")", "BREAKING CHANGE"}

\* every message of at most MaxMsgLen tokens
Messages == SeqsUpTo(Tokens, MaxMsgLen)

\* the message lists: one drawn message alone, or before or after one of
\* the named messages
MessageLists ==
  {<<>>}
    \cup {<<m>> : m \in Messages}
    \cup {<<m, f>> : m \in Messages, f \in {MsgFix, MsgFeat, MsgFeatBang}}
    \cup {<<f, m>> : m \in Messages, f \in {MsgFix, MsgFeat, MsgFeatBang}}
    \cup SeqsUpTo({MsgFix, MsgFeat, MsgFeatBang}, 2)

InitBump ==
  /\ pc = "start"
  /\ call \in {[currentVersion |-> v, commitMessages |-> l] :
                 v \in {V100, Version(0, 1, 1, "alpha")}, l \in MessageLists}
  /\ bumpType \in {""} \cup BumpTypes
  /\ manifest = NoPackages
  /\ packages = NoPackages
  /\ before = NoPackages
  /\ dependencyGraph = [n \in Names |-> {}]
  /\ targetPackages = <<>>
  /\ newCommits = [n \in Names |-> <<>>]
  /\ dryRun = FALSE
  /\ toUpdate = <<>>
  /\ strategies = <<>>
  /\ versionChanges = <<>>
  /\ conflicts = <<>>
  /\ written = <<>>
  /\ error = ""
  /\ CacheUnused

CalculateVersionBump ==
  /\ pc = "start"
  /\ result' = [kind |-> "bump",
                value |-> calculateVersionBump(call.currentVersion,
                                               call.commitMessages, bumpType)]
  /\ pc' = "done"
  /\ UNCHANGED <<manifest, packages, dependencyGraph, targetPackages,
                 newCommits, bumpType, dryRun, toUpdate, strategies,
                 versionChanges, conflicts, written, before, call, error,
                 cacheFile, now, changelogs, configFile>>

NextBump == CalculateVersionBump

SpecBump == InitBump /\ [][NextBump]_vars

\* the message holds the tokens of part, in order, from position i on
HoldsAt(msg, i, part) ==
  /\ i + Len(part) - 1 <= Len(msg)
  /\ \A k \in 1..Len(part) : msg[i + k - 1] = part[k]

\* the message contains part
Contains(msg, part) == \E i \in 1..Len(msg) : HoldsAt(msg, i, part)

\* the bump type the rules give for a list of messages and an override
RuleBump(messages, override) ==
  IF override # ""
    THEN override
    ELSE IF \E i \in 1..Len(messages) :
              \/ Contains(messages[i], <<"BREAKING CHANGE">>)
              \/ Contains(messages[i], <<"!", ":">>)
      THEN "major"
      ELSE IF \E i \in 1..Len(messages) :
                \/ HoldsAt(messages[i], 1, <<"feat", ":">>)
                \/ HoldsAt(messages[i], 1, <<"feat", "(">>)
        THEN "minor"
        ELSE "patch"

\* C11: calculateVersionBump returns the override when one is given;
\* otherwise major when a message contains BREAKING CHANGE or "!:",
\* otherwise minor when a message starts with "feat:" or "feat(",
\* otherwise patch, whatever the current version is.
BumpFollowsRules ==
  pc = "done" =>
    result.value = RuleBump(call.commitMessages, bumpType)

\* a fix and a feature without override gave minor
BumpWitness ==
  /\ pc = "done"
  /\ bumpType = ""
  /\ call.commitMessages = <<MsgFix, MsgFeat>>
  /\ result.value = "minor"

----------------------------------------------------------------------------
(* Specification SpecPlan: one plan, built by createUpdatePlan or by       *)
(* UpdateCommand.createUpdateStrategies                                      *)

\* the graphs of a workspace in which a also names a package outside it
PlanGraphs ==
  {g \in [Names -> SUBSET DepNames] :
     /\ \A n \in Names : n \notin g[n]
     /\ g["b"] \subseteq Names
     /\ g["c"] \subseteq Names}

\* three packages at 1.0.0
PlanWorkspace == Workspace([n \in Names |-> V100],
                           Decls(NoDecl, NoDecl, NoDecl, NoDecl, NoDecl))

\* the commits found: none, one fix for b only, a fix or a feature for all
PlanHistories ==
  {[n \in Names |-> <<>>],
   [n \in Names |-> IF n = "b" THEN <<MsgFix>> ELSE <<>>],
   [n \in Names |-> IF n = "a" THEN <<MsgFeat>> ELSE <<MsgFix>>]}

InitPlan ==
  /\ pc = "start"
  /\ dependencyGraph \in PlanGraphs
  /\ targetPackages \in SeqsUpTo(DepNames, MaxTargets)
  /\ bumpType \in {"", "minor"}
  /\ call \in {[known |-> k] : k \in {Names, {"a", "b"}}}
  /\ manifest = PlanWorkspace
  /\ packages = PlanWorkspace
  /\ before = PlanWorkspace
  /\ newCommits = [n \in Names |-> <<>>]
  /\ dryRun = FALSE
  /\ toUpdate = <<>>
  /\ strategies = <<>>
  /\ versionChanges = <<>>
  /\ conflicts = <<>>
  /\ written = <<>>
  /\ error = ""
  /\ CacheUnused

CreateUpdatePlan ==
  /\ pc = "start"
  /\ toUpdate' = getPackagesToUpdate(dependencyGraph, targetPackages)
  /\ strategies' = createUpdatePlan(call.known, dependencyGraph,
                                    targetPackages, bumpType)
  /\ pc' = "plan"
  /\ UNCHANGED cacheVars
  /\ UNCHANGED <<manifest, packages, dependencyGraph, targetPackages,
                 newCommits, bumpType, dryRun, versionChanges, conflicts,
                 written, before, call, error>>

\* the update command hands every package of the workspace to
\* createUpdateStrategies
CreateUpdateStrategies ==
  /\ pc = "start"
  /\ call.known = Names
  /\ \E history \in PlanHistories :
       newCommits' = getNewCommits(targetPackages, history)
  /\ toUpdate' = getPackagesToUpdate(dependencyGraph, targetPackages)
  /\ strategies' = createUpdateStrategies(packages, toUpdate', targetPackages,
                                          newCommits', bumpType)
  /\ pc' = "strategies"
  /\ UNCHANGED cacheVars
  /\ UNCHANGED <<manifest, packages, dependencyGraph, targetPackages,
                 bumpType, dryRun, versionChanges, conflicts, written, before,
                 call, error>>

NextPlan ==
  \/ CreateUpdatePlan
  \/ CreateUpdateStrategies

SpecPlan == InitPlan /\ [][NextPlan]_vars

\* the packages of S and the packages that declare one of S
WithDependents(graph, S) ==
  S \cup {q \in Names : \E p \in S : p \in graph[q]}

RECURSIVE ClosureOf(_, _)

\* the least set that holds S and is closed under "is a dependent of"
ClosureOf(graph, S) ==
  IF WithDependents(graph, S) = S
    THEN S
    ELSE ClosureOf(graph, WithDependents(graph, S))

PlanPackages == {strategies[i].package : i \in 1..Len(strategies)}

\* C12: createUpdatePlan returns a strategy for exactly the known packages
\* in the propagation closure of the targets; the reason is direct iff the
\* package is a target and dependency otherwise; the type is the given bump
\* type, or patch when none is given.
PlanIsClosure ==
  pc = "plan" =>
    /\ PlanPackages = ClosureOf(dependencyGraph, Range(targetPackages))
                        \cap call.known
    /\ \A i \in 1..Len(strategies) :
         /\ strategies[i].reason = "direct"
              <=> strategies[i].package \in Range(targetPackages)
         /\ strategies[i].reason \in {"direct", "dependency"}
         /\ strategies[i].type = IF bumpType # "" THEN bumpType ELSE "patch"

\* a and c depend on b, the target is b: b direct, a and c dependency, patch
PlanWitness ==
  /\ pc = "plan"
  /\ call.known = Names
  /\ bumpType = ""
  /\ targetPackages = <<"b">>
  /\ dependencyGraph = [n \in Names |-> IF n = "b" THEN {} ELSE {"b"}]
  /\ strategies = <<Strategy("patch", "b", "direct"),
                    Strategy("patch", "a", "dependency"),
                    Strategy("patch", "c", "dependency")>>

\* C13: no plan of createUpdatePlan or of createUpdateStrategies holds two
\* strategies for the same package name.
OneStrategyPerPackage ==
  pc \in {"plan", "strategies"} =>
    \A i \in 1..Len(strategies) : \A j \in 1..Len(strategies) :
      strategies[i].package = strategies[j].package => i = j

\* the target list names b twice, a is reached from both and from b's
\* dependents, and the plan holds a and b
OneStrategyWitness ==
  /\ pc \in {"plan", "strategies"}
  /\ targetPackages = <<"b", "b">>
  /\ "b" \in dependencyGraph["a"]
  /\ {"a", "b"} \subseteq PlanPackages

\* C15 (as claimed): a direct-target name that matches no known package
\* raises no error and does not appear in the list getPackagesToUpdate
\* returns.
UnknownTargetNotReturned ==
  pc = "plan" => (error = "" /\ Unknown \notin Range(toUpdate))

\* C15 (amended): a direct-target name that matches no known package raises
\* no error; getPackagesToUpdate returns it among the packages to update
\* and createUpdatePlan skips it, so the plan holds no strategy for it.
UnknownTargetSkippedByPlan ==
  pc = "plan" =>
    /\ error = ""
    /\ \A n \in Range(targetPackages) \ Names : n \in Range(toUpdate)
    /\ \A n \in Range(targetPackages) \ call.known : n \notin PlanPackages

\* an unknown name and a known one were targeted; the plan holds the known
UnknownTargetWitness ==
  /\ pc = "plan"
  /\ targetPackages = <<Unknown, "b">>
  /\ Unknown \in Range(toUpdate)
  /\ "b" \in PlanPackages

----------------------------------------------------------------------------
(* Specification SpecCache: a cache file, at most one writing operation of *)
(* CacheManager, then one reading operation; the clock moves in between    *)

\* the times the clock takes: the start, and maxAge - 1 and maxAge later
ClockValues == {Clock0 + d : d \in {0, maxAge - 1, maxAge}}

\* lastUpdateTime of the cache files found at the start: no date, null,
\* older than maxAge, maxAge old, younger, and now
FileTimes == {InvalidDate, 0, 9, 10, 11, Clock0}

\* packageCommits of the cache files found at the start
FileCommits ==
  {EmptyCommits, [n \in {"a"} |-> "h1"],
   [n \in {"a", "b"} |-> IF n = "a" THEN "" ELSE "h1"]}

CacheFiles ==
  {NoFile, GarbageFile, JsonNull}
    \cup {JsonObject(h, t, TRUE, c) :
            h \in {"", "h1"}, t \in FileTimes, c \in FileCommits}
    \cup {JsonObject(h, t, FALSE, EmptyCommits) :
            h \in {"", "h1"}, t \in FileTimes}

\* the CHANGELOG.md of a package: no block, an unparsable block, or a block
\* of the package written at time 5 or 6 with the hash of its latest
\* commit, or with '' (updateChangelogFiles passes { hash: '' } when the
\* package has dependency updates and no commit)
ChangelogsOf(n) ==
  {NoBlock, GarbageBlock}
    \cup {Block(n, h, t) : h \in {"", HashOf(n)}, t \in {5, 6}}

ChangelogSets ==
  {[n \in Names |-> CASE n = "a" -> la [] n = "b" -> lb [] OTHER -> lc] :
     la \in ChangelogsOf("a"), lb \in ChangelogsOf("b"),
     lc \in ChangelogsOf("c")}

NoChangelogs == [n \in Names |-> NoBlock]

\* lists of distinct package paths, at most MaxPaths long
PathLists ==
  {l \in SeqsUpTo(Names, MaxPaths) :
     \A i \in 1..Len(l) : \A j \in 1..Len(l) : l[i] = l[j] => i = j}

\* the updates handed to batchUpdatePackageCommits
UpdateMaps ==
  {EmptyCommits, [n \in {"a"} |-> "h2"], [n \in {"b", "c"} |-> "h2"]}

\* no writing operation has run
NoWrite == [op |-> "none"]

InitCache ==
  /\ pc = "start"
  /\ \/ cacheFile \in CacheFiles /\ changelogs = NoChangelogs
     \/ cacheFile = NoFile /\ changelogs \in ChangelogSets
  /\ before = cacheFile
  /\ now = Clock0
  /\ call = NoWrite
  /\ result = NoResult
  /\ manifest = NoPackages
  /\ packages = NoPackages
  /\ dependencyGraph = [n \in Names |-> {}]
  /\ targetPackages = <<>>
  /\ newCommits = [n \in Names |-> <<>>]
  /\ bumpType = ""
  /\ dryRun = FALSE
  /\ toUpdate = <<>>
  /\ strategies = <<>>
  /\ versionChanges = <<>>
  /\ conflicts = <<>>
  /\ written = <<>>
  /\ error = ""
  /\ configFile = NoFile

\* what every step of this specification leaves alone
cacheFrame == <<manifest, packages, dependencyGraph, targetPackages,
                newCommits, bumpType, dryRun, toUpdate, strategies,
                versionChanges, conflicts, written, before, changelogs,
                configFile>>

\* time passes between two operations
Tick ==
  /\ pc \in {"start", "written"}
  /\ \E t \in ClockValues : t > now /\ now' = t
  /\ UNCHANGED <<pc, cacheFile, call, result, error>>
  /\ UNCHANGED cacheFrame

\* a writing operation ran with outcome r
WriteStep(op, args, r) ==
  /\ call' = [op |-> op, args |-> args, time |-> now]
  /\ cacheFile' = r.file
  /\ error' = IF r.threw THEN "TypeError" ELSE ""
  /\ pc' = "written"
  /\ UNCHANGED <<now, result>>
  /\ UNCHANGED cacheFrame

BatchUpdatePackageCommits ==
  /\ pc = "start"
  /\ \E updates \in UpdateMaps :
    WriteStep("batchUpdatePackageCommits", updates,
              batchUpdatePackageCommits(cacheFile, updates, now))

UpdatePackageCommit ==
  /\ pc = "start"
  /\ \E packageName \in {"a", "c"} :
    WriteStep("updatePackageCommit", packageName,
              updatePackageCommit(cacheFile, packageName, "h2", now))

SetGlobalLastCommit ==
  /\ pc = "start"
  /\ \E commitHash \in {"", "h2"} :
    WriteStep("setGlobalLastCommit", commitHash,
              setGlobalLastCommit(cacheFile, commitHash, now))

ClearCache ==
  /\ pc = "start"
  /\ WriteStep("clearCache", "", clearCache(cacheFile))

RebuildCache ==
  /\ pc = "start"
  /\ changelogs # NoChangelogs
  /\ \E packagePaths \in PathLists :
       WriteStep("rebuildCache", packagePaths,
                 rebuildCache(changelogs, packagePaths, now))

\* a reading operation ran and gave back r
ReadStep(op, arg, r) ==
  /\ result' = [op |-> op, arg |-> arg, threw |-> r.threw, value |-> r.value]
  /\ pc' = "read"
  /\ UNCHANGED <<cacheFile, now, call, error>>
  /\ UNCHANGED cacheFrame

ReadCache ==
  /\ pc \in {"start", "written"}
  /\ ReadStep("readCache", "", Returned(readCache(cacheFile)))

GetPackageLastCommit ==
  /\ pc \in {"start", "written"}
  /\ \E packageName \in Names :
    ReadStep("getPackageLastCommit", packageName,
             getPackageLastCommit(cacheFile, packageName))

GetGlobalLastCommit ==
  /\ pc \in {"start", "written"}
  /\ ReadStep("getGlobalLastCommit", "", getGlobalLastCommit(cacheFile))

GetAllPackageCommits ==
  /\ pc \in {"start", "written"}
  /\ ReadStep("getAllPackageCommits", "", getAllPackageCommits(cacheFile))

ValidateCache ==
  /\ pc \in {"start", "written"}
  /\ ReadStep("validateCache", "", Returned(validateCache(cacheFile, now)))

GetCacheStatus ==
  /\ pc \in {"start", "written"}
  /\ ReadStep("getCacheStatus", "", getCacheStatus(cacheFile, now))

NextCache ==
  \/ Tick
  \/ BatchUpdatePackageCommits
  \/ UpdatePackageCommit
  \/ SetGlobalLastCommit
  \/ ClearCache
  \/ RebuildCache
  \/ ReadCache
  \/ GetPackageLastCommit
  \/ GetGlobalLastCommit
  \/ GetAllPackageCommits
  \/ ValidateCache
  \/ GetCacheStatus

SpecCache == InitCache /\ [][NextCache]_vars

\* the file is missing, is not parsable, or parses to content without
\* the packageCommits field
Unusable(file) ==
  \/ file.kind # "json"
  \/ ~file.isObject
  \/ ~file.hasPackageCommits

\* C17 (as claimed): every read operation returns instead of raising an
\* error when the cache file is missing, is not parsable or lacks the
\* expected fields; for a missing or unparsable file it returns its
\* empty default.
ReadsNeverRaise ==
  (pc = "read" /\ Unusable(cacheFile)) =>
    /\ ~result.threw
    /\ (cacheFile.kind # "json" /\ result.op = "readCache")
         => result.value = NullCache
    /\ (cacheFile.kind # "json"
          /\ result.op \in {"getPackageLastCommit", "getGlobalLastCommit"})
         => result.value = NullValue
    /\ (cacheFile.kind # "json" /\ result.op = "getAllPackageCommits")
         => result.value = EmptyCommits
    /\ (cacheFile.kind # "json" /\ result.op = "validateCache")
         => result.value = FALSE
    /\ (cacheFile.kind # "json" /\ result.op = "getCacheStatus")
         => (~result.value.exists /\ ~result.value.valid)

\* the paths scanned by rebuildCache whose changelog holds a metadata block
ScannedBlocks == {q \in Range(call.args) : changelogs[q].kind = "block"}

\* C18 (as claimed): after rebuildCache, packageCommits maps every package
\* whose changelog has a metadata block to that block's lastCommitHash, and
\* the global lastCommitHash is that of a block with the latest
\* lastUpdateTime, whatever the scan order and the hashes.
RebuildTakesLatest ==
  (pc = "written" /\ call.op = "rebuildCache") =>
    /\ cacheFile.packageCommits =
         [n \in ScannedBlocks |-> changelogs[n].lastCommitHash]
    /\ ScannedBlocks # {} =>
         \E q \in ScannedBlocks :
           /\ \A r \in ScannedBlocks :
                changelogs[r].lastUpdateTime <= changelogs[q].lastUpdateTime
           /\ cacheFile.lastCommitHash = changelogs[q].lastCommitHash

\* C19 (as claimed): with no cache file getCacheStatus returns exists=false
\* and valid=false; after one batchUpdatePackageCommits call it returns
\* exists=true and valid=true, lastUpdateTime equal to the time of the call
\* and packageCount equal to the number of packages recorded.
StatusAfterRecord ==
  (pc = "read" /\ result.op = "getCacheStatus" /\ before = NoFile) =>
    /\ call.op = "none" =>
         (~result.threw /\ ~result.value.exists /\ ~result.value.valid)
    /\ call.op = "batchUpdatePackageCommits" =>
         /\ ~result.threw
         /\ result.value.exists
         /\ result.value.valid
         /\ result.value.lastUpdateTime = call.time
         /\ result.value.packageCount = Cardinality(DOMAIN call.args)

\* C19 (amended): as claimed, but valid is true exactly when the status is
\* read less than 7 days after the batchUpdatePackageCommits call.
StatusAfterRecordWhileFresh ==
  (pc = "read" /\ result.op = "getCacheStatus" /\ before = NoFile) =>
    /\ call.op = "none" =>
         (~result.threw /\ ~result.value.exists /\ ~result.value.valid)
    /\ call.op = "batchUpdatePackageCommits" =>
         /\ ~result.threw
         /\ result.value.exists
         /\ result.value.valid <=> (now - call.time < 7 * 24 * 60 * 60 * 1000)
         /\ result.value.lastUpdateTime = call.time
         /\ result.value.packageCount = Cardinality(DOMAIN call.args)

\* two packages were recorded with no file before, and the status read one
\* millisecond before the 7 days were over counts both and is valid
StatusAfterRecordWitness ==
  /\ pc = "read"
  /\ result.op = "getCacheStatus"
  /\ before = NoFile
  /\ call.op = "batchUpdatePackageCommits"
  /\ now - call.time = 7 * 24 * 60 * 60 * 1000 - 1
  /\ result.value.packageCount = 2
  /\ result.value.valid

\* C20 (as claimed): validateCache, and the valid field of getCacheStatus,
\* is true iff a readable cache exists and less than 7 days have passed
\* since its lastUpdateTime; an expired cache is still returned unchanged by
\* readCache and getPackageLastCommit.
ValidIffYoungerThanSevenDays ==
  LET readable == cacheFile.kind = "json" /\ cacheFile.isObject
      young == /\ readable
               /\ cacheFile.lastUpdateTime # InvalidDate
               /\ now - cacheFile.lastUpdateTime < 7 * 24 * 60 * 60 * 1000
  IN  pc = "read" =>
        /\ result.op = "validateCache" => result.value = young
        /\ result.op = "getCacheStatus" =>
             (~result.threw /\ result.value.valid = young)
        /\ (result.op = "readCache" /\ readable) =>
             /\ result.value.lastCommitHash = cacheFile.lastCommitHash
             /\ result.value.lastUpdateTime = cacheFile.lastUpdateTime
        /\ (result.op = "getPackageLastCommit" /\ readable) =>
             /\ ~result.threw
             /\ result.value =
                  IF /\ cacheFile.hasPackageCommits
                     /\ result.arg \in DOMAIN cacheFile.packageCommits
                     /\ cacheFile.packageCommits[result.arg] # ""
                    THEN cacheFile.packageCommits[result.arg]
                    ELSE NullValue

----------------------------------------------------------------------------
(* Specification SpecGraph: getPackagesToUpdate on any graph and targets *)

InitGraph ==
  /\ pc = "start"
  /\ dependencyGraph \in [Names -> SUBSET DepNames]
  /\ targetPackages \in SeqsUpTo(DepNames, MaxTargets)
  /\ manifest = NoPackages
  /\ packages = NoPackages
  /\ newCommits = [n \in Names |-> <<>>]
  /\ bumpType = ""
  /\ dryRun = FALSE
  /\ toUpdate = <<>>
  /\ strategies = <<>>
  /\ versionChanges = <<>>
  /\ conflicts = <<>>
  /\ written = <<>>
  /\ before = NoPackages
  /\ call = <<>>
  /\ error = ""
  /\ CacheUnused

GetPackagesToUpdate ==
  /\ pc = "start"
  /\ toUpdate' = getPackagesToUpdate(dependencyGraph, targetPackages)
  /\ pc' = "expanded"
  /\ UNCHANGED cacheVars
  /\ UNCHANGED <<manifest, packages, dependencyGraph, targetPackages,
                 newCommits, bumpType, dryRun, strategies, versionChanges,
                 conflicts, written, before, call, error>>

\* getPackagesToUpdate called on the list it returned
GetPackagesToUpdateAgain ==
  /\ pc = "expanded"
  /\ result' = [kind |-> "packages",
                value |-> getPackagesToUpdate(dependencyGraph, toUpdate)]
  /\ pc' = "reexpanded"
  /\ UNCHANGED <<manifest, packages, dependencyGraph, targetPackages,
                 newCommits, bumpType, dryRun, toUpdate, strategies,
                 versionChanges, conflicts, written, before, call, error,
                 cacheFile, now, changelogs, configFile>>

NextGraph ==
  \/ GetPackagesToUpdate
  \/ GetPackagesToUpdateAgain

SpecGraph == InitGraph /\ [][NextGraph]_vars

\* C1: the list returned by getPackagesToUpdate(S) holds every name of S
\* and, with each package p it holds, every package whose dependency list
\* in the graph contains p.
ClosureCorrect ==
  pc = "expanded" =>
    /\ Range(targetPackages) \subseteq Range(toUpdate)
    /\ \A p \in Range(toUpdate) : \A q \in Names :
         p \in dependencyGraph[q] => q \in Range(toUpdate)

\* a run where a dependent outside the targets was pulled in through a cycle
ClosureWitness ==
  /\ pc = "expanded"
  /\ targetPackages = <<"a">>
  /\ dependencyGraph["b"] = {"a", "c"}
  /\ dependencyGraph["c"] = {"b"}
  /\ dependencyGraph["a"] = {}
  /\ Range(toUpdate) = {"a", "b", "c"}

\* C14: getPackagesToUpdate applied to its own result returns exactly the
\* same packages.
ExpandIdempotent ==
  pc = "reexpanded" => Range(result.value) = Range(toUpdate)

\* the first expansion added a dependent of a dependent, and the second
\* call has returned
ExpandIdempotentWitness ==
  /\ pc = "reexpanded"
  /\ targetPackages = <<"c">>
  /\ "c" \in dependencyGraph["b"]
  /\ "b" \in dependencyGraph["a"]
  /\ "c" \notin dependencyGraph["a"]
  /\ Range(result.value) = {"a", "b", "c"}

----------------------------------------------------------------------------
(* The plan of the update command and the dependency graph *)

\* the strategies of the plan with the given reason
StrategiesFor(reason) ==
  {strategies[i].package :
     i \in {j \in 1..Len(strategies) : strategies[j].reason = reason}}

\* C28 (as claimed): in every plan of the update command, each package with
\* a dependency strategy transitively depends on a package with a direct
\* strategy of the same plan; when no direct target has new commits the
\* plan is empty and no version is bumped.
DependencyStrategiesRooted ==
  pc # "start" =>
    /\ \A p \in StrategiesFor("dependency") :
         \E q \in StrategiesFor("direct") :
           p \in ClosureOf(dependencyGraph, {q})
    /\ (\A t \in Range(targetPackages) : newCommits[t] = <<>>) =>
         /\ strategies = <<>>
         /\ \A n \in Names : manifest[n].version = before[n].version

----------------------------------------------------------------------------
(* Commit-to-Package Attributor: PathMatcher (src/utils/path-matcher.ts) *)

\* A path is a list of segments and a segment a list of characters, so
\* that String.startsWith can be computed on the text of the path.
SegP == <<"p">>
SegP2 == <<"p", "2">>
SegQ == <<"q">>
SegUp == <<".", ".">>

\* this.rootPath, resolved: /r
rootPath == <<<<"r">>>>

RECURSIVE resolveFrom(_, _)

\* path.resolve(base, relative) for an absolute, normalised base: ".."
\* leaves the last directory (the root has none above it), every other
\* segment enters a directory
resolveFrom(base, segments) ==
  IF segments = <<>>
    THEN base
    ELSE IF Head(segments) = SegUp
      THEN resolveFrom(IF base = <<>> THEN base
                                      ELSE SubSeq(base, 1, Len(base) - 1),
                       Tail(segments))
      ELSE resolveFrom(Append(base, Head(segments)), Tail(segments))

RECURSIVE pathText(_)

\* the string of an absolute path: "/" before every segment
pathText(path) ==
  IF path = <<>>
    THEN <<>>
    ELSE <<"/">> \o Head(path) \o pathText(Tail(path))

\* String.prototype.startsWith
startsWith(text, prefix) ==
  /\ Len(prefix) <= Len(text)
  /\ SubSeq(text, 1, Len(prefix)) = prefix

\* PathMatcher.doesFileAffectPackage
doesFileAffectPackage(gitRelativePath, packageAbsolutePath) ==
  LET fileAbsolutePath == resolveFrom(rootPath, gitRelativePath)
      normalizedPackagePath == resolveFrom(<<>>, packageAbsolutePath)
  IN  startsWith(pathText(fileAbsolutePath), pathText(normalizedPackagePath))

\* PathMatcher.doesAnyFileAffectPackage: gitRelativePaths.some(...)
doesAnyFileAffectPackage(gitRelativePaths, packageAbsolutePath) ==
  \E i \in 1..Len(gitRelativePaths) :
    doesFileAffectPackage(gitRelativePaths[i], packageAbsolutePath)

----------------------------------------------------------------------------
(* Specification SpecPath: one call of doesAnyFileAffectPackage *)

\* the repository-relative paths of changed files
FilePaths == SeqsUpTo({SegP, SegP2, SegQ, SegUp}, MaxDepth) \ {<<>>}

\* the directories of the packages: /r/p, /r/p2, /r/q and /r/p/q
PackagePaths ==
  {rootPath \o <<SegP>>, rootPath \o <<SegP2>>, rootPath \o <<SegQ>>,
   rootPath \o <<SegP, SegQ>>}

InitPath ==
  /\ pc = "start"
  /\ call \in {[files |-> f, packagePath |-> d] :
                 f \in SeqsUpTo(FilePaths, MaxFiles), d \in PackagePaths}
  /\ manifest = NoPackages
  /\ packages = NoPackages
  /\ before = NoPackages
  /\ dependencyGraph = [n \in Names |-> {}]
  /\ targetPackages = <<>>
  /\ newCommits = [n \in Names |-> <<>>]
  /\ bumpType = ""
  /\ dryRun = FALSE
  /\ toUpdate = <<>>
  /\ strategies = <<>>
  /\ versionChanges = <<>>
  /\ conflicts = <<>>
  /\ written = <<>>
  /\ error = ""
  /\ CacheUnused

DoesAnyFileAffectPackage ==
  /\ pc = "start"
  /\ result' = [kind |-> "affects",
                value |-> doesAnyFileAffectPackage(call.files,
                                                   call.packagePath)]
  /\ pc' = "done"
  /\ UNCHANGED <<manifest, packages, dependencyGraph, targetPackages,
                 newCommits, bumpType, dryRun, toUpdate, strategies,
                 versionChanges, conflicts, written, before, call, error,
                 cacheFile, now, changelogs, configFile>>

NextPath == DoesAnyFileAffectPackage

SpecPath == InitPath /\ [][NextPath]_vars

\* the directory is the path itself or one of the directories above it
InSubtree(path, directory) ==
  /\ Len(directory) <= Len(path)
  /\ SubSeq(path, 1, Len(directory)) = directory

\* C22 (as claimed): doesAnyFileAffectPackage(files, packagePath) is true
\* iff the resolved path of some file is packagePath or lies below it.
AffectsIffInSubtree ==
  pc = "done" =>
    (result.value <=>
       \E i \in 1..Len(call.files) :
         InSubtree(resolveFrom(rootPath, call.files[i]), call.packagePath))

----------------------------------------------------------------------------
(* Specification SpecWalk: getPackagesToUpdate, one call or return of the   *)
(* closure addPackageAndDependents at a time. call holds the call stack    *)
(* (one frame per running addPackageAndDependents, with the dependents its *)
(* loop has still to visit), the names the outer loop has still to visit   *)
(* and the names whose dependents were looked up; toUpdate is the Set      *)
(* packagesToUpdate.                                                       *)

Frame(name, dependents) == [name |-> name, dependents |-> dependents]

Walk(stack, rest, expanded) ==
  [stack |-> stack, rest |-> rest, expanded |-> expanded]

InitWalk ==
  /\ pc = "walking"
  /\ dependencyGraph \in [Names -> SUBSET Names]
  /\ targetPackages \in SeqsUpTo(DepNames, MaxTargets)
  /\ call = Walk(<<>>, targetPackages, <<>>)
  /\ toUpdate = <<>>
  /\ manifest = NoPackages
  /\ packages = NoPackages
  /\ before = NoPackages
  /\ newCommits = [n \in Names |-> <<>>]
  /\ bumpType = ""
  /\ dryRun = FALSE
  /\ strategies = <<>>
  /\ versionChanges = <<>>
  /\ conflicts = <<>>
  /\ written = <<>>
  /\ error = ""
  /\ CacheUnused

walkFrame == <<manifest, packages, dependencyGraph, targetPackages,
               newCommits, bumpType, dryRun, strategies, versionChanges,
               conflicts, written, before, error, cacheFile, now, changelogs,
               configFile>>

\* the loop that runs: the for-of of the innermost closure call, or the
\* outer loop over packageNames
LoopNames == IF call.stack = <<>>
               THEN call.rest
               ELSE call.stack[Len(call.stack)].dependents

\* the walk after the running loop took its next name
Advanced ==
  IF call.stack = <<>>
    THEN Walk(<<>>, Tail(call.rest), call.expanded)
    ELSE Walk([call.stack EXCEPT ![Len(call.stack)].dependents = Tail(@)],
              call.rest, call.expanded)

\* a faulty variant of the test that looks for the name among the running
\* calls only, not in the Set
VisitedOnStack(packageName) ==
  \E i \in 1..Len(call.stack) : call.stack[i].name = packageName

\* packagesToUpdate.has(packageName)
Visited(packageName) == packageName \in Range(toUpdate)

\* addPackageAndDependents(name) on a name that is not in the Set: add it,
\* look up its dependents and start the loop over them
WalkEnter ==
  /\ pc = "walking"
  /\ LoopNames # <<>>
  /\ ~Visited(Head(LoopNames))
  /\ toUpdate' = Append(toUpdate, Head(LoopNames))
  /\ call' = Walk(Append(Advanced.stack,
                         Frame(Head(LoopNames),
                               getDependentPackages(dependencyGraph,
                                                    Head(LoopNames)))),
                  Advanced.rest,
                  Append(call.expanded, Head(LoopNames)))
  /\ UNCHANGED <<pc, result>>
  /\ UNCHANGED walkFrame

\* addPackageAndDependents(name) on a name of the Set returns at once
WalkSkip ==
  /\ pc = "walking"
  /\ LoopNames # <<>>
  /\ Visited(Head(LoopNames))
  /\ call' = Advanced
  /\ UNCHANGED <<pc, result, toUpdate>>
  /\ UNCHANGED walkFrame

\* the loop over the dependents is over: the closure call returns
WalkReturn ==
  /\ pc = "walking"
  /\ call.stack # <<>>
  /\ LoopNames = <<>>
  /\ call' = Walk(SubSeq(call.stack, 1, Len(call.stack) - 1), call.rest,
                  call.expanded)
  /\ UNCHANGED <<pc, result, toUpdate>>
  /\ UNCHANGED walkFrame

\* the outer loop is over: return Array.from(packagesToUpdate)
WalkFinish ==
  /\ pc = "walking"
  /\ call.stack = <<>>
  /\ call.rest = <<>>
  /\ result' = [kind |-> "packages", value |-> toUpdate]
  /\ pc' = "expanded"
  /\ UNCHANGED <<call, toUpdate>>
  /\ UNCHANGED walkFrame

NextWalk ==
  \/ WalkEnter
  \/ WalkSkip
  \/ WalkReturn
  \/ WalkFinish

SpecWalk == InitWalk /\ [][NextWalk]_vars

\* the call keeps running: the interpreter takes the next step
SpecWalkLive == SpecWalk /\ WF_vars(NextWalk)

\* C24: getPackagesToUpdate terminates on every graph, cycles and
\* self-dependencies included, and looks up the dependents of each package
\* name at most once; what it returns is the list the recursive definition
\* gives.
WalkTerminates ==
  /\ <>(pc = "expanded")
  /\ [](\A i \in 1..Len(call.expanded) : \A j \in 1..Len(call.expanded) :
          call.expanded[i] = call.expanded[j] => i = j)
  /\ [](pc = "expanded" =>
          result.value = getPackagesToUpdate(dependencyGraph, targetPackages))

\* the call returned on a graph with a cycle a -> b -> a, a package that
\* depends on itself, and two targets that both reach a
WalkWitness ==
  /\ pc = "expanded"
  /\ targetPackages = <<"b", "c">>
  /\ "b" \in dependencyGraph["a"]
  /\ "a" \in dependencyGraph["b"]
  /\ "c" \in dependencyGraph["a"]
  /\ "c" \in dependencyGraph["c"]
  /\ result.value = <<"b", "a", "c">>

----------------------------------------------------------------------------
(* Specification SpecRecord: a cache file and a sequence of calls of       *)
(* batchUpdatePackageCommits and setGlobalLastCommit; before holds the     *)
(* file as it was when the last call began                                 *)

InitRecord ==
  /\ pc = "start"
  /\ cacheFile \in CacheFiles
  /\ before = cacheFile
  /\ now = Clock0
  /\ call = NoWrite
  /\ result = NoResult
  /\ changelogs = NoChangelogs
  /\ configFile = NoFile
  /\ manifest = NoPackages
  /\ packages = NoPackages
  /\ dependencyGraph = [n \in Names |-> {}]
  /\ targetPackages = <<>>
  /\ newCommits = [n \in Names |-> <<>>]
  /\ bumpType = ""
  /\ dryRun = FALSE
  /\ toUpdate = <<>>
  /\ strategies = <<>>
  /\ versionChanges = <<>>
  /\ conflicts = <<>>
  /\ written = <<>>
  /\ error = ""

\* one more writing operation ran, with outcome r, on the file left by the
\* operations before it
RecordStep(op, args, r) ==
  /\ call' = [op |-> op, args |-> args, time |-> now]
  /\ before' = cacheFile
  /\ cacheFile' = r.file
  /\ written' = Append(written, Write("cache", ""))
  /\ error' = IF r.threw THEN "TypeError" ELSE ""
  /\ pc' = "written"
  /\ UNCHANGED <<now, result, manifest, packages, dependencyGraph,
                 targetPackages, newCommits, bumpType, dryRun, toUpdate,
                 strategies, versionChanges, conflicts, changelogs,
                 configFile>>

RecordPackageCommits ==
  /\ pc \in {"start", "written"}
  /\ Len(written) < MaxOps
  /\ \E updates \in UpdateMaps :
       RecordStep("batchUpdatePackageCommits", updates,
                  batchUpdatePackageCommits(cacheFile, updates, now))

RecordGlobalLastCommit ==
  /\ pc \in {"start", "written"}
  /\ Len(written) < MaxOps
  /\ \E commitHash \in {"", "h2", "h3"} :
       RecordStep("setGlobalLastCommit", commitHash,
                  setGlobalLastCommit(cacheFile, commitHash, now))

NextRecord ==
  \/ Tick
  \/ RecordPackageCommits
  \/ RecordGlobalLastCommit

SpecRecord == InitRecord /\ [][NextRecord]_vars

\* the hash a cache file records for a package (null when it has none)
RecordedCommit(file, packageName) ==
  LET commits == getAllPackageCommits(file).value
  IN  IF packageName \in DOMAIN commits THEN commits[packageName]
                                        ELSE NullValue

\* C29: in any sequence of the two operations, batchUpdatePackageCommits
\* leaves the recorded hash of every package it was not given and the
\* global lastCommitHash as they were, and setGlobalLastCommit leaves every
\* per-package hash as it was.
RecordsOnlyWhatIsNamed ==
  pc = "written" =>
    /\ call.op = "batchUpdatePackageCommits" =>
         /\ \A n \in Names \ DOMAIN call.args :
              RecordedCommit(cacheFile, n) = RecordedCommit(before, n)
         /\ getGlobalLastCommit(cacheFile) = getGlobalLastCommit(before)
    /\ call.op = "setGlobalLastCommit" =>
         \A n \in Names :
           RecordedCommit(cacheFile, n) = RecordedCommit(before, n)

\* the third operation recorded b and c in a file that held a hash for a
\* and a global hash set by the operation before it
RecordsWitness ==
  /\ pc = "written"
  /\ Len(written) = 3
  /\ call.op = "batchUpdatePackageCommits"
  /\ DOMAIN call.args = {"b", "c"}
  /\ RecordedCommit(before, "a") = "h1"
  /\ RecordedCommit(before, "b") # "h2"
  /\ getGlobalLastCommit(before).value = "h3"
  /\ RecordedCommit(cacheFile, "a") = "h1"
  /\ RecordedCommit(cacheFile, "b") = "h2"
  /\ getGlobalLastCommit(cacheFile).value = "h3"

----------------------------------------------------------------------------
(* The configuration file, as far as the commands use it *)

\* the configuration file: JSON with includeAllCommits set (the other
\* fields as in DEFAULT_CONFIG)
ConfigFile(includeAllCommits) ==
  [kind |-> "json", includeAllCommits |-> includeAllCommits]

\* DEFAULT_CONFIG.commitTypes
commitTypes == {"feat", "fix", "docs", "style", "refactor", "test", "chore"}

\* ConfigManager.createDefaultConfig: includeAllCommits is false
DefaultConfig == ConfigFile(FALSE)

\* ConfigManager.readConfig: the defaults without a file, else the merge
readConfig(file) == IF file = NoFile THEN DefaultConfig ELSE file

\* ConfigManager.createConfigFile: saveConfig(defaults) unless a file exists
createConfigFile(file) == IF file = NoFile THEN DefaultConfig ELSE file

----------------------------------------------------------------------------
(* Specification SpecInitCommand: one run of InitCommand.execute *)

\* a commit: its hash, its parsed type ("" for none) and the packages whose
\* directory holds one of its files
Commit(hash, type, touched) ==
  [hash |-> hash, type |-> type, touched |-> touched]

\* the histories git log returns, newest first
CommitLogs ==
  SeqsUpTo({Commit("h1", "feat", {"a"}), Commit("h2", "wip", {"a", "b"}),
            Commit("h3", "", {"c"})}, MaxCommits)

\* the files of the repository that the commands write
Files(config, cache, logs) ==
  [configFile |-> config, cacheFile |-> cache, changelogs |-> logs]

InitInitCommand ==
  /\ pc = "start"
  /\ dryRun \in BOOLEAN
  /\ call \in {[config |-> c, commits |-> l] :
                 c \in BOOLEAN, l \in CommitLogs}
  /\ configFile \in {NoFile, ConfigFile(TRUE)}
  /\ cacheFile \in {NoFile, JsonObject("h0", 10, TRUE, [n \in {"a"} |-> "h0"]),
                    JsonObject("h0", 10, FALSE, EmptyCommits)}
  /\ changelogs \in {[n \in Names |-> NoFile],
                     [n \in Names |-> IF n = "a" THEN Block("a", "h0", 10)
                                                 ELSE NoFile]}
  /\ before = Files(configFile, cacheFile, changelogs)
  /\ now = Clock0
  /\ manifest = PlanWorkspace
  /\ packages = NoPackages
  /\ newCommits = [n \in Names |-> <<>>]
  /\ dependencyGraph = [n \in Names |-> {}]
  /\ targetPackages = <<>>
  /\ bumpType = ""
  /\ toUpdate = <<>>
  /\ strategies = <<>>
  /\ versionChanges = <<>>
  /\ conflicts = <<>>
  /\ written = <<>>
  /\ error = ""
  /\ result = NoResult

initFrame == <<manifest, dependencyGraph, targetPackages, bumpType, dryRun,
               toUpdate, strategies, versionChanges, conflicts, before, call,
               result, now>>

\* steps 2 to 5 of execute: initializeConfig (createConfigFile unless
\* --config is given), collectCommits, getPackages, analyzePackageCommits
InitializeConfig ==
  /\ pc = "start"
  /\ configFile' = IF call.config THEN configFile
                                  ELSE createConfigFile(configFile)
  /\ written' = IF configFile' # configFile
                  THEN Append(written, Write("config", ""))
                  ELSE written
  /\ packages' = manifest
  /\ newCommits' = [n \in Names |->
                      SelectSeq(call.commits, LAMBDA c : n \in c.touched)]
  /\ pc' = "analyzed"
  /\ UNCHANGED <<cacheFile, changelogs, error>>
  /\ UNCHANGED initFrame

\* the commits generateChangelogFiles keeps for a package
filteredCommits(packageName) ==
  IF readConfig(configFile).includeAllCommits
    THEN newCommits[packageName]
    ELSE SelectSeq(newCommits[packageName],
                   LAMBDA c : c.type = "" \/ c.type \in commitTypes)

\* step 6 without --dry-run: generateChangelogFiles
GenerateChangelogFiles ==
  /\ pc = "analyzed"
  /\ ~dryRun
  /\ LET chosen == SelectSeq(PackageOrder,
                             LAMBDA n : filteredCommits(n) # <<>>)
     IN  /\ changelogs' =
               [n \in Names |->
                  IF filteredCommits(n) # <<>>
                    THEN updateChangelog(changelogs[n], n,
                                         filteredCommits(n)[1].hash, now)
                    ELSE changelogs[n]]
         /\ written' = written \o [i \in 1..Len(chosen) |->
                                     Write("changelog", chosen[i])]
  /\ pc' = "changelogs"
  /\ UNCHANGED <<cacheFile, configFile, packages, newCommits, error>>
  /\ UNCHANGED initFrame

\* steps 6 and 7 with --dry-run: previewChanges prints, updateCache is not
\* called
PreviewChanges ==
  /\ pc = "analyzed"
  /\ dryRun
  /\ pc' = "finished"
  /\ UNCHANGED <<cacheFile, configFile, changelogs, packages, newCommits,
                 written, error>>
  /\ UNCHANGED initFrame

\* step 7 without --dry-run: updateCache (setGlobalLastCommit when there is
\* a commit, then batchUpdatePackageCommits, which may throw)
UpdateCache ==
  /\ pc = "changelogs"
  /\ LET global == IF call.commits # <<>>
                     THEN setGlobalLastCommit(cacheFile,
                                              call.commits[1].hash, now).file
                     ELSE cacheFile
         updates == [n \in {m \in Names : newCommits[m] # <<>>} |->
                       newCommits[n][1].hash]
         r == batchUpdatePackageCommits(global, updates, now)
     IN  /\ cacheFile' = r.file
         /\ written' = written
                         \o (IF call.commits # <<>>
                               THEN <<Write("cache", "")>> ELSE <<>>)
                         \o (IF r.threw THEN <<>> ELSE <<Write("cache", "")>>)
         /\ error' = IF r.threw THEN "TypeError" ELSE ""
         /\ pc' = IF r.threw THEN "failed" ELSE "finished"
  /\ UNCHANGED <<configFile, changelogs, packages, newCommits>>
  /\ UNCHANGED initFrame

NextInitCommand ==
  \/ InitializeConfig
  \/ GenerateChangelogFiles
  \/ PreviewChanges
  \/ UpdateCache

SpecInitCommand == InitInitCommand /\ [][NextInitCommand]_vars

\* C21 (as claimed), for the init command: with --dry-run no file is
\* created or modified; configuration file, changelogs and cache file are
\* as they were before the run, and nothing was written.
DryRunWritesNothing ==
  dryRun =>
    /\ Files(configFile, cacheFile, changelogs) = before
    /\ written = <<>>

----------------------------------------------------------------------------
(* The files the update command writes, and the cache rebuilt from them *)

\* the place of a kind of file in the order of executeUpdate
WriteRank(kind) == CASE kind = "manifest" -> 1 [] kind = "changelog" -> 2
                     [] OTHER -> 3

\* C27: in a run of the update command every manifest write comes before
\* every changelog write and every changelog write before every cache
\* write; the cache file differs from the one found at the start only once
\* the run has finished, so that a run that failed while applying versions
\* or while writing a changelog leaves the cache file as it was.
RunWritesInOrder ==
  /\ \A i \in 1..Len(written) : \A j \in 1..Len(written) :
       i < j => WriteRank(written[i].kind) <= WriteRank(written[j].kind)
  /\ cacheFile # RunCacheFile => pc \in {"finished", "rebuilt"}
  /\ (/\ pc = "failed"
      /\ error \in {"cannot compute new version", "cannot write manifest",
                    "cannot write changelog"})
       => cacheFile = RunCacheFile

\* a run wrote manifests and a changelog and then failed on the next
\* changelog; the cache file is the one found at the start
RunWritesInOrderWitness ==
  /\ pc = "failed"
  /\ error = "cannot write changelog"
  /\ \E i \in 1..Len(written) : written[i].kind = "manifest"
  /\ \E i \in 1..Len(written) : written[i].kind = "changelog"
  /\ changelogs # RunChangelogFiles
  /\ manifest # before
  /\ cacheFile = RunCacheFile

\* C26 (as claimed): after a completed run, the cache that rebuildCache
\* builds from the CHANGELOG.md files gives, for every package for which
\* the run recorded a last commit, the hash that the cache file of the run
\* gives.
RebuildAgreesWithRun ==
  pc = "rebuilt" =>
    \A n \in Names :
      newCommits[n] # <<>> =>
        getPackageLastCommit(cacheFile, n)
          = getPackageLastCommit(result.value, n)

====
